---- MODULE Spec2Model ----
(***************************************************************************)
(* Speculator-DNS: the recursive resolver (src/src/server/mod.rs) and the  *)
(* DNS message codec (src/src/message/...).                                *)
(*                                                                         *)
(* Spec       : the query handler and the recursive lookup state machine,  *)
(*              driven by decoded client requests and upstream replies.    *)
(* SpecQname  : BytePacketBuffer::read_qname, one loop iteration per step. *)
(* SpecCodec  : packet-buffer operations and the header, question and      *)
(*              record parses applied to received datagrams.               *)
(* SpecRoundTrip : DNSPacket::write followed by DNSPacket::from_buffer.    *)
(* SpecLive   : Spec with the resolver's own steps taken eventually.       *)
(* SpecGetNs  : DNSPacket::get_ns on packets and query names.              *)
(* SpecName   : write_qname followed by read_qname from the same position. *)
(* SpecRecordWrite : DNSRecord::write at a position of a used buffer.      *)
(* SpecHeader : DNSHeaderSection::write followed by DNSHeaderSection::read.*)
(* SpecParse  : get_byte_range and the TXT, CAA, record, question and      *)
(*              datagram parses, each applied once to a prepared buffer.   *)
(***************************************************************************)
EXTENDS Integers, Sequences, FiniteSets, TLC

VARIABLES
    hpc,        \* position of handle_query: "idle", "resolving", "returned"
    outcome,    \* value handle_query returned: "none", "ok", "err"
    src,        \* source address of the datagram handle_query received
    request,    \* result of DNSPacket::from_buffer on the request
    question,   \* the question popped from the request (an Option)
    response_packet, \* the response under construction in handle_query
    stack,      \* active recursive_lookup invocations, innermost last
    ret,        \* value returned by the recursive_lookup that just finished
    lookups,    \* upstream lookups issued since handle_query received
    lastQuery,  \* the last datagram lookup handed to send_to, with its target
    sentToClient, \* datagrams handle_query handed to send_to for the client
    lookupFailed, \* some lookup of this query returned Err
    buffer,     \* a BytePacketBuffer: its 512 octets buf and its cursor pos
    qn,         \* the locals of a read_qname call in progress
    cin,        \* what the codec was given: the case placed in the buffer
    cres,       \* what the last codec operation returned
    nops        \* codec operations applied so far

rvars == <<hpc, outcome, src, request, question, response_packet, stack, ret,
           lookups, lastQuery, sentToClient, lookupFailed>>
cvars == <<buffer, qn, cin, cres, nops>>
vars == <<rvars, cvars>>

----------------------------------------------------------------------------
(* Bounds of the model *)

MaxLookups == 17
MaxDepth == 2

----------------------------------------------------------------------------
(* Option values *)

None == [some |-> FALSE]
Some(x) == [some |-> TRUE, val |-> x]

(* Strings are sequences of octets (ASCII codes): "a.b" is <<97, 46, 98>> *)
Dot == 46
Root == <<>>
Name_b == <<98>>
Name_ab == <<97, Dot, 98>>
Name_xb == <<120, 98>>
Name_n == <<110>>

(* str::ends_with: t is a character suffix of s *)
ends_with(s, t) ==
    /\ Len(t) <= Len(s)
    /\ SubSeq(s, Len(s) - Len(t) + 1, Len(s)) = t

(* Addresses *)
BootstrapIp == <<1, 1, 1, 1>>
Ip1 == <<93, 184, 216, 34>>
Ip2 == <<199, 43, 135, 53>>
DnsPort == 53

----------------------------------------------------------------------------
(* QRType: the enum variants, UNKNOWN carrying its code *)

QRType_A == [tag |-> "A"]
QRType_NS == [tag |-> "NS"]
QRType_CNAME == [tag |-> "CNAME"]
QRType_SOA == [tag |-> "SOA"]
QRType_PTR == [tag |-> "PTR"]
QRType_MX == [tag |-> "MX"]
QRType_TXT == [tag |-> "TXT"]
QRType_AAAA == [tag |-> "AAAA"]
QRType_SRV == [tag |-> "SRV"]
QRType_CAA == [tag |-> "CAA"]
QRType_UNKNOWN(x) == [tag |-> "UNKNOWN", code |-> x]

----------------------------------------------------------------------------
(* Decoded packets *)

DNSHeaderSection_new ==
    [id |-> 0, qr |-> "Query", opcode |-> "Query", aa |-> "NonAuthoritative",
     tc |-> "NonTruncated", rd |-> "NonDesired", ra |-> "NonAvailable",
     z |-> "Unused", ad |-> "NonAuthenticated", cd |-> "Disabled",
     rcode |-> "NoError", qdcount |-> 0, ancount |-> 0, nscount |-> 0,
     arcount |-> 0]

DNSPacket_new ==
    [header |-> DNSHeaderSection_new, questions |-> <<>>, answers |-> <<>>,
     authority |-> <<>>, additional |-> <<>>]

DNSQuestion_new(qname, qtype, qclass) ==
    [qname |-> qname, qtype |-> qtype, qclass |-> qclass]

DNSRecordPreamble_new(name, rtype, class, ttl, rdlength) ==
    [name |-> name, rtype |-> rtype, class |-> class, ttl |-> ttl,
     rdlength |-> rdlength]

DNSARecord_new(name, class, ttl, rdata) ==
    [variant |-> "A",
     preamble |-> DNSRecordPreamble_new(name, QRType_A, class, ttl, 4),
     rdata |-> rdata]

DNSNSRecord_new(name, class, ttl, ns_domain) ==
    [variant |-> "NS",
     preamble |-> DNSRecordPreamble_new(name, QRType_NS, class, ttl,
                                        Len(ns_domain)),
     rdata |-> ns_domain]

(* an Option<String> field is a sequence of at most one string *)
DNSUNKNOWNRecord_new(name, class, ttl, rdata) ==
    [variant |-> "UNKNOWN",
     preamble |-> DNSRecordPreamble_new(name, QRType_UNKNOWN(0), class, ttl, 0),
     rdata |-> <<rdata>>]

DNSAAAARecord_new(name, class, ttl, address) ==
    [variant |-> "AAAA",
     preamble |-> DNSRecordPreamble_new(name, QRType_AAAA, class, ttl, 16),
     address |-> address]

DNSCNAMERecord_new(name, class, ttl, canonical_name) ==
    [variant |-> "CNAME",
     preamble |-> DNSRecordPreamble_new(name, QRType_CNAME, class, ttl,
                                        Len(canonical_name)),
     rdata |-> canonical_name]

DNSPTRRecord_new(name, class, ttl, ptrdname) ==
    [variant |-> "PTR",
     preamble |-> DNSRecordPreamble_new(name, QRType_PTR, class, ttl, 0),
     ptrdname |-> ptrdname]

DNSMXRecord_new(name, class, ttl, rdata) ==
    [variant |-> "MX",
     preamble |-> DNSRecordPreamble_new(name, QRType_MX, class, ttl, 0),
     preference |-> rdata[1], exchange |-> rdata[2]]

DNSSOARecord_new(name, class, ttl, rdata) ==
    [variant |-> "SOA",
     preamble |-> DNSRecordPreamble_new(name, QRType_SOA, class, ttl, 0),
     mname |-> rdata[1], rname |-> rdata[2], serial |-> rdata[3],
     refresh |-> rdata[4], retry |-> rdata[5], expire |-> rdata[6],
     minimum |-> rdata[7]]

DNSSRVRecord_new(name, class, ttl, rdata) ==
    [variant |-> "SRV",
     preamble |-> DNSRecordPreamble_new(name, QRType_SRV, class, ttl, 0),
     priority |-> rdata[1], weight |-> rdata[2], port |-> rdata[3],
     target |-> rdata[4]]

DNSTXTRecord_new(name, class, ttl, text) ==
    [variant |-> "TXT",
     preamble |-> DNSRecordPreamble_new(name, QRType_TXT, class, ttl, 0),
     text |-> text]

DNSCAARecord_new(name, class, ttl, rdata) ==
    [variant |-> "CAA",
     preamble |-> DNSRecordPreamble_new(name, QRType_CAA, class, ttl, 0),
     flags |-> rdata[1], tag |-> rdata[2], value |-> rdata[3]]

(* DNSPacket::write, the part that changes the packet: the four counts are *)
(* set from the section lengths before the header is written.              *)
SyncCounts(p) ==
    [p EXCEPT !.header.qdcount = Len(p.questions),
              !.header.ancount = Len(p.answers),
              !.header.nscount = Len(p.authority),
              !.header.arcount = Len(p.additional)]

(* DNSRecord::write refuses the UNKNOWN variant *)
RecordWritable(r) == r.variant # "UNKNOWN"

WriteSucceeds(p) ==
    /\ \A i \in 1..Len(p.answers) : RecordWritable(p.answers[i])
    /\ \A i \in 1..Len(p.authority) : RecordWritable(p.authority[i])
    /\ \A i \in 1..Len(p.additional) : RecordWritable(p.additional[i])

----------------------------------------------------------------------------
(* Projections used by the resolver *)

(* DNSPacket::get_random_a: the first A record of the answer section *)
RECURSIVE FirstA(_, _)
FirstA(recs, i) ==
    IF i > Len(recs) THEN None
    ELSE IF recs[i].variant = "A" THEN Some(recs[i].rdata)
    ELSE FirstA(recs, i + 1)

get_random_a(p) == FirstA(p.answers, 1)

IsNS(r) == r.variant = "NS"

(* DNSPacket::get_ns: (owner, target) of the authority NS records whose   *)
(* owner is a character suffix of qname                                    *)
NsMatches(qname, domain) == ends_with(qname, domain)

get_ns(p, qname) ==
    LET ns == SelectSeq(p.authority, IsNS)
        pairs == [i \in 1..Len(ns) |-> <<ns[i].preamble.name, ns[i].rdata>>]
    IN  SelectSeq(pairs, LAMBDA pr : NsMatches(qname, pr[1]))

(* the A records of the additional section owned by host, in order *)
GlueFor(p, host) ==
    LET hit(r) == r.variant = "A" /\ r.preamble.name = host
        as == SelectSeq(p.additional, hit)
    IN  [i \in 1..Len(as) |-> as[i].rdata]

RECURSIVE FirstGlue(_, _, _)
FirstGlue(p, ns, i) ==
    IF i > Len(ns) THEN None
    ELSE IF Len(GlueFor(p, ns[i][2])) > 0 THEN Some(GlueFor(p, ns[i][2])[1])
    ELSE FirstGlue(p, ns, i + 1)

(* DNSPacket::get_resolved_ns *)
get_resolved_ns(p, qname) == FirstGlue(p, get_ns(p, qname), 1)

(* The name find_next_server passes to get_ns *)
FindNextServerFilter == Root

(* DNSResolver::find_next_server, one iteration of its for loop at index  *)
(* i of get_ns: the glue address, the host a nested recursive_lookup is   *)
(* started for, or the end of the loop                                    *)
find_next_server_at(response, i) ==
    LET ns == get_ns(response, FindNextServerFilter)
    IN  IF i > Len(ns) THEN [kind |-> "none"]
        ELSE LET ns_host == ns[i][2]
                 glue == get_resolved_ns(response, ns_host)
             IN  IF glue.some
                 THEN [kind |-> "some", server |-> <<glue.val, DnsPort>>]
                 ELSE [kind |-> "recurse", host |-> ns_host]

----------------------------------------------------------------------------
(* BytePacketBuffer: a buffer value is [buf, pos]; buf[i + 1] is octet i.  *)
(* Every operation returns [ok, panic, b, val]: whether it returned Ok,    *)
(* whether it panicked instead of returning, the buffer it leaves behind   *)
(* (also when it fails) and the value read.                                *)

BufSize == 512

Zeros == [i \in 1..BufSize |-> 0]
BytePacketBuffer_new == [buf |-> Zeros, pos |-> 0]

Done(b, v) == [ok |-> TRUE, panic |-> FALSE, b |-> b, val |-> v]
Fail(b) == [ok |-> FALSE, panic |-> FALSE, b |-> b, val |-> <<>>]

(* the ? operator and the match arms that return Err(e): the next call is  *)
(* made on the buffer the previous one left, unless it failed              *)
Bind(r, F(_, _)) == IF r.ok THEN F(r.b, r.val) ELSE [r EXCEPT !.val = <<>>]
Then(r, F(_)) == IF r.ok THEN F(r.b) ELSE [r EXCEPT !.val = <<>>]

(* let _ = ...: the outcome is dropped and the next call is made anyway *)
Ignore(r, F(_, _)) == F(r.b, r.val)

(* step and seek set the cursor without any check *)
step(b, steps) == Done([b EXCEPT !.pos = b.pos + steps], <<>>)
seek(b, pos) == Done([b EXCEPT !.pos = pos], <<>>)

read_u8(b) ==
    IF b.pos >= BufSize THEN Fail(b)
    ELSE Done([b EXCEPT !.pos = b.pos + 1], b.buf[b.pos + 1])

get_byte(b, pos) ==
    IF pos >= BufSize THEN Fail(b) ELSE Done(b, b.buf[pos + 1])

get_byte_range(b, start, len) ==
    IF start + len >= BufSize THEN Fail(b)
    ELSE Done(b, SubSeq(b.buf, start + 1, start + len))

(* n successive read_u8 calls: the octets read, or the failure of the      *)
(* first call that finds the cursor at the end, the calls before it having *)
(* moved the cursor there                                                  *)
ReadOctets(b, n) ==
    IF n = 0 THEN Done(b, <<>>)
    ELSE IF b.pos >= BufSize THEN Fail(b)
    ELSE IF b.pos + n <= BufSize
         THEN Done([b EXCEPT !.pos = b.pos + n],
                   SubSeq(b.buf, b.pos + 1, b.pos + n))
         ELSE Fail([b EXCEPT !.pos = BufSize])

read_u16(b) ==
    LET r == ReadOctets(b, 2)
    IN  IF r.ok THEN Done(r.b, r.val[1] * 256 + r.val[2]) ELSE r

(* a u32 and a u128 are kept as their octets, most significant first *)
read_u32(b) == ReadOctets(b, 4)
read_u128(b) == ReadOctets(b, 16)

write_u8(b, val) ==
    IF b.pos >= BufSize THEN Fail(b)
    ELSE Done([buf |-> [b.buf EXCEPT ![b.pos + 1] = val], pos |-> b.pos + 1],
              <<>>)

(* successive write_u8 calls for the octets of vals: all of them written,  *)
(* or the failure of the first call that finds the cursor at the end, the  *)
(* calls before it having written their octets                             *)
WriteOctets(b, vals) ==
    LET room == IF b.pos >= BufSize THEN 0 ELSE BufSize - b.pos
        n == IF Len(vals) <= room THEN Len(vals) ELSE room
        written == [buf |-> [i \in 1..BufSize |->
                                IF i > b.pos /\ i <= b.pos + n
                                THEN vals[i - b.pos] ELSE b.buf[i]],
                    pos |-> b.pos + n]
    IN  IF vals = <<>> THEN Done(b, <<>>)
        ELSE IF n = 0 THEN Fail(b)
        ELSE IF n = Len(vals) THEN Done(written, <<>>)
        ELSE Fail(written)

write_u16(b, val) == WriteOctets(b, <<(val \div 256) % 256, val % 256>>)
write_u32(b, val) == WriteOctets(b, val)
write_u128(b, val) == WriteOctets(b, val)

(* to_lowercase on ASCII text *)
ToLower_Kept(c) == c
ToLower(c) == IF c >= 65 /\ c <= 90 THEN c + 32 ELSE c
Lowercase(str) == [i \in 1..Len(str) |-> ToLower(str[i])]

(* read_qname: its locals, with cursor standing for self.pos *)
max_jumps == 5

QnameIdle ==
    [status |-> "idle", pos |-> 0, jumped |-> FALSE, jumps_performed |-> 0,
     outstr |-> <<>>, delim |-> <<>>, cursor |-> 0, iterations |-> 0]

QnameStart(b, outstr) ==
    [status |-> "running", pos |-> b.pos, jumped |-> FALSE,
     jumps_performed |-> 0, outstr |-> outstr, delim |-> <<>>,
     cursor |-> b.pos, iterations |-> 0]

JumpLimitExceeded_Late(st) == st.jumps_performed > max_jumps + 1
JumpLimitExceeded(st) == st.jumps_performed > max_jumps

(* the shared cursor is put behind a pointer only if !jumped *)
SeekPastPointer_Always(st) == TRUE
SeekPastPointer(st) == ~st.jumped

(* one pass through the loop of read_qname *)
QnameIter(buf, st0) ==
    LET st == [st0 EXCEPT !.iterations = @ + 1]
        failed == [st EXCEPT !.status = "err"]
    IN
    IF JumpLimitExceeded(st) THEN failed
    ELSE IF st.pos >= BufSize THEN failed
    ELSE LET len == buf[st.pos + 1] IN
    IF len >= 192
    THEN LET moved == IF SeekPastPointer(st)
                      THEN [st EXCEPT !.cursor = st.pos + 2]
                      ELSE st
         IN  IF st.pos + 1 >= BufSize THEN [moved EXCEPT !.status = "err"]
             ELSE [moved EXCEPT !.pos = (len - 192) * 256 + buf[st.pos + 2],
                                !.jumped = TRUE,
                                !.jumps_performed = @ + 1]
    ELSE LET pos1 == st.pos + 1 IN
         IF len = 0
         THEN [st EXCEPT !.pos = pos1,
                         !.cursor = IF st.jumped THEN @ ELSE pos1,
                         !.status = "ok"]
         ELSE IF pos1 + len >= BufSize
              THEN [st EXCEPT !.pos = pos1, !.outstr = @ \o st.delim,
                              !.status = "err"]
              ELSE [st EXCEPT !.pos = pos1 + len,
                              !.outstr = @ \o st.delim
                                  \o Lowercase(SubSeq(buf, pos1 + 1, pos1 + len)),
                              !.delim = <<Dot>>]

RECURSIVE QnameRun(_, _)
QnameRun(buf, st) ==
    IF st.status # "running" THEN st ELSE QnameRun(buf, QnameIter(buf, st))

(* read_qname(outstr); val is outstr as the call leaves it, which on a     *)
(* failure holds the labels appended before the failure                    *)
QnameReturn(b, st) ==
    [ok |-> st.status = "ok", panic |-> FALSE,
     b |-> [b EXCEPT !.pos = st.cursor], val |-> st.outstr]

read_qname(b, outstr) ==
    QnameReturn(b, QnameRun(b.buf, QnameStart(b, outstr)))

(* str.as_bytes(): the UTF-8 octets of a string whose characters are the   *)
(* code points 0..255; an ASCII string is its own encoding                 *)
RECURSIVE Utf8Octets(_)
Utf8Octets(str) ==
    IF str = <<>> THEN <<>>
    ELSE (IF Head(str) < 128 THEN <<Head(str)>>
          ELSE <<192 + (Head(str) \div 64), 128 + (Head(str) % 64)>>)
         \o Utf8Octets(Tail(str))

Utf8(str) ==
    IF \A i \in 1..Len(str) : str[i] < 128 THEN str ELSE Utf8Octets(str)

(* qname.split('.').filter(|l| !l.is_empty()): the maximal runs of         *)
(* characters other than '.', in order; a run starts at the start of the   *)
(* string or behind a '.'                                                  *)
LabelStarts(str) ==
    {i \in 1..Len(str) : str[i] # Dot /\ (i = 1 \/ str[i - 1] = Dot)}

LabelEnd(str, i) ==
    CHOOSE j \in i..Len(str) :
        /\ \A k \in i..j : str[k] # Dot
        /\ (j = Len(str) \/ str[j + 1] = Dot)

RECURSIVE LabelsFrom(_, _)
LabelsFrom(str, starts) ==
    IF starts = {} THEN <<>>
    ELSE LET i == CHOOSE x \in starts : \A y \in starts : x <= y
         IN  <<SubSeq(str, i, LabelEnd(str, i))>>
                 \o LabelsFrom(str, starts \ {i})

SplitLabels(str) == LabelsFrom(str, LabelStarts(str))

RECURSIVE WriteLabels(_, _)
WriteLabels(b, labels) ==
    IF labels = <<>> THEN write_u8(b, 0)
    ELSE LET octets == Utf8(Head(labels)) IN
         IF Len(octets) > 63 THEN Fail(b)
         ELSE Then(WriteOctets(b, <<Len(octets)>> \o octets),
                   LAMBDA b1 : WriteLabels(b1, Tail(labels)))

write_qname(b, qname) == WriteLabels(b, SplitLabels(qname))

----------------------------------------------------------------------------
(* QRType and QRClass codes *)

QRType_to_u16(t) ==
    CASE t.tag = "A" -> 1
      [] t.tag = "NS" -> 2
      [] t.tag = "CNAME" -> 5
      [] t.tag = "SOA" -> 6
      [] t.tag = "PTR" -> 12
      [] t.tag = "MX" -> 15
      [] t.tag = "TXT" -> 16
      [] t.tag = "AAAA" -> 28
      [] t.tag = "SRV" -> 33
      [] t.tag = "CAA" -> 257
      [] OTHER -> t.code

QRType_from_u16(value) ==
    CASE value = 1 -> QRType_A
      [] value = 2 -> QRType_NS
      [] value = 5 -> QRType_CNAME
      [] value = 6 -> QRType_SOA
      [] value = 12 -> QRType_PTR
      [] value = 15 -> QRType_MX
      [] value = 16 -> QRType_TXT
      [] value = 28 -> QRType_AAAA
      [] value = 33 -> QRType_SRV
      [] value = 257 -> QRType_CAA
      [] OTHER -> QRType_UNKNOWN(value)

QRClass_from_u16(value) ==
    CASE value = 1 -> Some("IN")
      [] value = 3 -> Some("CH")
      [] value = 4 -> Some("HS")
      [] value = 255 -> Some("ANY")
      [] OTHER -> None

QRClass_to_u16(value) ==
    CASE value = "IN" -> 1
      [] value = "CH" -> 3
      [] value = "HS" -> 4
      [] value = "ANY" -> 255

----------------------------------------------------------------------------
(* DNSHeaderSection: the flag enums and the twelve header octets *)

OpCode_from_u8(value) ==
    CASE value = 0 -> Some("Query")
      [] value = 1 -> Some("IQuery")
      [] value = 2 -> Some("Status")
      [] value = 4 -> Some("Notify")
      [] value = 5 -> Some("Update")
      [] OTHER -> None

OpCode_to_u8(value) ==
    CASE value = "Query" -> 0
      [] value = "IQuery" -> 1
      [] value = "Status" -> 2
      [] value = "Notify" -> 4
      [] value = "Update" -> 5

RCodes ==
    <<"NoError", "FormErr", "ServFail", "NXDomain", "NotImp", "Refused",
      "YXDomain", "YXRRSet", "NXRRSet", "NotAuth", "NotZone">>

RCode_from_u8(value) ==
    IF value < Len(RCodes) THEN Some(RCodes[value + 1]) ELSE None

RCode_as_u8(rcode) == (CHOOSE i \in 1..Len(RCodes) : RCodes[i] = rcode) - 1

(* the two-variant flag enums: from_u8 of a bit, and the variant as u8 *)
Flag_from_u8(bit, zero, one) == IF bit = 0 THEN zero ELSE one
Flag_as_u8_Zero(flag, one) == 0
Flag_as_u8(flag, one) == IF flag = one THEN 1 ELSE 0

(* ZFlag has the single variant Unused = 0; from_u8(1) is None *)
ZFlag_from_u8(bit) == IF bit = 0 THEN Some("Unused") ELSE None

DNSHeaderSection_read(b) ==
    Bind(read_u16(b), LAMBDA b1, id :
    Bind(read_u16(b1), LAMBDA b2, flags :
        LET a == flags \div 256
            lo == flags % 256
            opcode == OpCode_from_u8((a \div 8) % 16)
            rcode == RCode_from_u8(lo % 16)
            z == ZFlag_from_u8((lo \div 64) % 2)
        IN  IF ~opcode.some \/ ~rcode.some \/ ~z.some THEN Fail(b2)
            ELSE
    Bind(read_u16(b2), LAMBDA b3, qdcount :
    Bind(read_u16(b3), LAMBDA b4, ancount :
    Bind(read_u16(b4), LAMBDA b5, nscount :
    Bind(read_u16(b5), LAMBDA b6, arcount :
        Done(b6,
             [id |-> id,
              qr |-> Flag_from_u8((a \div 128) % 2, "Query", "Response"),
              opcode |-> opcode.val,
              aa |-> Flag_from_u8((a \div 4) % 2, "NonAuthoritative",
                                  "Authoritative"),
              tc |-> Flag_from_u8((a \div 2) % 2, "NonTruncated", "Truncated"),
              rd |-> Flag_from_u8(a % 2, "NonDesired", "Desired"),
              ra |-> Flag_from_u8((lo \div 128) % 2, "NonAvailable",
                                  "Available"),
              z |-> z.val,
              ad |-> Flag_from_u8((lo \div 32) % 2, "NonAuthenticated",
                                  "Authenticated"),
              cd |-> Flag_from_u8((lo \div 16) % 2, "Enabled", "Disabled"),
              rcode |-> rcode.val,
              qdcount |-> qdcount, ancount |-> ancount,
              nscount |-> nscount, arcount |-> arcount])))))))

(* the failure of either flag octet's write_u8 is printed, not returned *)
DNSHeaderSection_write(h, b) ==
    Then(write_u16(b, h.id), LAMBDA b1 :
    Ignore(write_u8(b1,
                    Flag_as_u8(h.rd, "Desired")
                    + 2 * Flag_as_u8(h.tc, "Truncated")
                    + 4 * Flag_as_u8(h.aa, "Authoritative")
                    + 8 * OpCode_to_u8(h.opcode)
                    + 128 * Flag_as_u8(h.qr, "Response")),
           LAMBDA bhi, u1 :
    Ignore(write_u8(bhi,
                    RCode_as_u8(h.rcode)
                    + 16 * Flag_as_u8(h.cd, "Disabled")
                    + 32 * Flag_as_u8(h.ad, "Authenticated")
                    + 64 * Flag_as_u8(h.z, "Used")
                    + 128 * Flag_as_u8(h.ra, "Available")),
           LAMBDA blo, u2 :
    Then(write_u16(blo, h.qdcount), LAMBDA b2 :
    Then(write_u16(b2, h.ancount), LAMBDA b3 :
    Then(write_u16(b3, h.nscount), LAMBDA b4 :
    write_u16(b4, h.arcount)))))))

----------------------------------------------------------------------------
(* DNSQuestion *)

(* read on a question constructed as new("", UNKNOWN(0), ANY): the class   *)
(* octets are read and dropped                                             *)
DNSQuestion_read(b) ==
    Bind(read_qname(b, <<>>), LAMBDA b1, qname :
    Bind(read_u16(b1), LAMBDA b2, typenum :
    Bind(read_u16(b2), LAMBDA b3, classnum :
        Done(b3, DNSQuestion_new(qname, QRType_from_u16(typenum), "ANY")))))

(* write puts class 1 on the wire whatever the qclass field holds *)
DNSQuestion_write(q, b) ==
    Then(write_qname(b, q.qname), LAMBDA b1 :
    Then(write_u16(b1, QRType_to_u16(q.qtype)), LAMBDA b2 :
    write_u16(b2, 1)))

----------------------------------------------------------------------------
(* DNSRecordPreamble and the record variants *)

(* read: the name, the type, then the TTL and the length; the class is     *)
(* QRClass::from_u16 of the constant 1 and no octets are read for it       *)
DNSRecordPreamble_read(b) ==
    Bind(read_qname(b, <<>>), LAMBDA b1, domain :
    Bind(read_u16(b1), LAMBDA b2, qtype_num :
        LET class == QRClass_from_u16(1) IN
        IF ~class.some THEN Fail(b2) ELSE
    Bind(read_u32(b2), LAMBDA b3, ttl :
    Bind(read_u16(b3), LAMBDA b4, data_len :
        Done(b4, DNSRecordPreamble_new(domain, QRType_from_u16(qtype_num),
                                       class.val, ttl, data_len))))))

(* the name, type, class and TTL every record's write starts with *)
PreambleHead_write(p, b) ==
    Then(write_qname(b, p.name), LAMBDA b1 :
    Then(write_u16(b1, QRType_to_u16(p.rtype)), LAMBDA b2 :
    Then(write_u16(b2, QRClass_to_u16(p.class)), LAMBDA b3 :
    write_u32(b3, p.ttl))))

DNSRecordPreamble_write(p, b) ==
    Then(PreambleHead_write(p, b), LAMBDA b1 : write_u16(b1, p.rdlength))

(* the rdlength written after the rdata: r is the outcome of the rdata     *)
(* writes that followed the two placeholder octets at len_pos              *)
PatchLength_FromLenPos(len_pos, r) ==
    Then(r, LAMBDA b1 :
        LET end_pos == b1.pos
            rdlength == end_pos - len_pos
        IN
    Then(seek(b1, len_pos), LAMBDA b2 :
    Then(write_u16(b2, rdlength % 65536), LAMBDA b3 :
    seek(b3, end_pos))))

PatchLength(len_pos, r) ==
    Then(r, LAMBDA b1 :
        LET end_pos == b1.pos
            rdlength == end_pos - (len_pos + 2)
        IN
    Then(seek(b1, len_pos), LAMBDA b2 :
    Then(write_u16(b2, rdlength % 65536), LAMBDA b3 :
    seek(b3, end_pos))))

DNSARecord_read(b, p) ==
    Bind(read_u32(b), LAMBDA b1, raw_addr :
        Done(b1, DNSARecord_new(p.name, p.class, p.ttl, raw_addr)))

DNSARecord_write(r, b) ==
    Then(DNSRecordPreamble_write([r.preamble EXCEPT !.rdlength = 4], b),
         LAMBDA b1 : WriteOctets(b1, r.rdata))

DNSAAAARecord_read(b, p) ==
    Bind(read_u128(b), LAMBDA b1, raw_addr :
        Done(b1, DNSAAAARecord_new(p.name, p.class, p.ttl, raw_addr)))

DNSAAAARecord_write(r, b) ==
    Then(DNSRecordPreamble_write([r.preamble EXCEPT !.rdlength = 16], b),
         LAMBDA b1 : write_u128(b1, r.address))

DNSNSRecord_read(b, p) ==
    Bind(read_qname(b, <<>>), LAMBDA b1, ns_domain :
        Done(b1, DNSNSRecord_new(p.name, p.class, p.ttl, ns_domain)))

DNSNSRecord_write(r, b) ==
    Then(PreambleHead_write(r.preamble, b), LAMBDA b1 :
    Then(write_u16(b1, 0), LAMBDA b2 :
    PatchLength(b1.pos, write_qname(b2, r.rdata))))

DNSCNAMERecord_read(b, p) ==
    Bind(read_qname(b, <<>>), LAMBDA b1, canonical_name :
        Done(b1, DNSCNAMERecord_new(p.name, p.class, p.ttl, canonical_name)))

DNSCNAMERecord_write(r, b) ==
    Then(PreambleHead_write(r.preamble, b), LAMBDA b1 :
    Then(write_u16(b1, 0), LAMBDA b2 :
    PatchLength(b1.pos, write_qname(b2, r.rdata))))

DNSPTRRecord_read(b, p) ==
    Bind(read_qname(b, <<>>), LAMBDA b1, ptrdname :
        Done(b1, DNSPTRRecord_new(p.name, p.class, p.ttl, ptrdname)))

DNSPTRRecord_write(r, b) ==
    Then(PreambleHead_write(r.preamble, b), LAMBDA b1 :
    Then(write_u16(b1, 0), LAMBDA b2 :
    PatchLength(b1.pos, write_qname(b2, r.ptrdname))))

DNSMXRecord_read(b, p) ==
    Bind(read_u16(b), LAMBDA b1, preference :
    Bind(read_qname(b1, <<>>), LAMBDA b2, exchange :
        Done(b2, DNSMXRecord_new(p.name, p.class, p.ttl,
                                 <<preference, exchange>>))))

DNSMXRecord_write(r, b) ==
    Then(PreambleHead_write(r.preamble, b), LAMBDA b1 :
    Then(write_u16(b1, 0), LAMBDA b2 :
    PatchLength(b1.pos,
        Then(write_u16(b2, r.preference), LAMBDA b3 :
        write_qname(b3, r.exchange)))))

(* the outcomes of the two read_qname calls are dropped: after a failure   *)
(* the name holds what was appended and the cursor is where the call left  *)
(* it                                                                      *)
DNSSOARecord_read(b, p) ==
    Ignore(read_qname(b, <<>>), LAMBDA bm, mname :
    Ignore(read_qname(bm, <<>>), LAMBDA br, rname :
    Bind(read_u32(br), LAMBDA b1, serial :
    Bind(read_u32(b1), LAMBDA b2, refresh :
    Bind(read_u32(b2), LAMBDA b3, retry :
    Bind(read_u32(b3), LAMBDA b4, expire :
    Bind(read_u32(b4), LAMBDA b5, minimum :
        Done(b5, DNSSOARecord_new(p.name, p.class, p.ttl,
                                  <<mname, rname, serial, refresh, retry,
                                    expire, minimum>>)))))))))

DNSSOARecord_write(r, b) ==
    Then(PreambleHead_write(r.preamble, b), LAMBDA b1 :
    Then(write_u16(b1, 0), LAMBDA b2 :
    PatchLength(b1.pos,
        Then(write_qname(b2, r.mname), LAMBDA b3 :
        Then(write_qname(b3, r.rname), LAMBDA b4 :
        Then(write_u32(b4, r.serial), LAMBDA b5 :
        Then(write_u32(b5, r.refresh), LAMBDA b6 :
        Then(write_u32(b6, r.retry), LAMBDA b7 :
        Then(write_u32(b7, r.expire), LAMBDA b8 :
        write_u32(b8, r.minimum))))))))))

DNSSRVRecord_read(b, p) ==
    Bind(read_u16(b), LAMBDA b1, priority :
    Bind(read_u16(b1), LAMBDA b2, weight :
    Bind(read_u16(b2), LAMBDA b3, port :
    Bind(read_qname(b3, <<>>), LAMBDA b4, target :
        Done(b4, DNSSRVRecord_new(p.name, p.class, p.ttl,
                                  <<priority, weight, port, target>>))))))

DNSSRVRecord_write(r, b) ==
    Then(PreambleHead_write(r.preamble, b), LAMBDA b1 :
    Then(write_u16(b1, 0), LAMBDA b2 :
    PatchLength(b1.pos,
        Then(write_u16(b2, r.priority), LAMBDA b3 :
        Then(write_u16(b3, r.weight), LAMBDA b4 :
        Then(write_u16(b4, r.port), LAMBDA b5 :
        write_qname(b5, r.target)))))))

(* while i <= data_len: data_len + 1 octets, each pushed as a char *)
DNSTXTRecord_read(b, p) ==
    Bind(ReadOctets(b, p.rdlength + 1), LAMBDA b1, text :
        Done(b1, DNSTXTRecord_new(p.name, p.class, p.ttl, text)))

DNSTXTRecord_write(r, b) ==
    LET text_bytes == Utf8(r.text) IN
    Then(PreambleHead_write(r.preamble, b), LAMBDA b1 :
    Then(write_u16(b1, Len(text_bytes) % 65536), LAMBDA b2 :
    WriteOctets(b2, text_bytes)))

(* the tag loop compares i as u8 with tag_len, so it reads tag_len + 1     *)
(* octets and, for tag_len 255, reads until read_u8 fails; value_len is    *)
(* data_len - tag_len in u16, which panics when overflow checks are        *)
(* compiled in and wraps when they are not; the value_len + 1 octets that  *)
(* follow are pushed onto tag, and value stays empty                       *)
DNSCAARecord_read(b, p, overflow_checks) ==
    Bind(read_u8(b), LAMBDA b1, flags :
    Bind(read_u8(b1), LAMBDA b2, tag_len :
    Bind(ReadOctets(b2, IF tag_len = 255 THEN BufSize + 1 ELSE tag_len + 1),
         LAMBDA b3, tag :
        IF p.rdlength < tag_len /\ overflow_checks
        THEN [Fail(b3) EXCEPT !.panic = TRUE]
        ELSE LET value_len == (p.rdlength - tag_len) % 65536 IN
    Bind(ReadOctets(b3, value_len + 1), LAMBDA b4, rest :
        Done(b4, DNSCAARecord_new(p.name, p.class, p.ttl,
                                  <<flags, tag \o rest, <<>> >>))))))

DNSCAARecord_write(r, b) ==
    LET tag_bytes == Utf8(r.tag)
        value_bytes == Utf8(r.value)
        rdlength == 1 + 1 + Len(tag_bytes) + Len(value_bytes)
    IN
    Then(DNSRecordPreamble_write([r.preamble EXCEPT !.rdlength = rdlength], b),
         LAMBDA b1 :
    Then(write_u8(b1, r.flags), LAMBDA b2 :
    Then(write_u8(b2, Len(tag_bytes) % 256), LAMBDA b3 :
    Then(WriteOctets(b3, tag_bytes), LAMBDA b4 :
    WriteOctets(b4, value_bytes)))))

DNSUNKNOWNRecord_read(b, p) ==
    Then(step(b, p.rdlength), LAMBDA b1 :
        Done(b1, DNSUNKNOWNRecord_new(p.name, p.class, p.ttl, <<>>)))

DNSUNKNOWNRecord_write(r, b) == Fail(b)

(* DNSRecord::read: only the type code 0 is read as UNKNOWN *)
DNSRecord_read(b, overflow_checks) ==
    Bind(DNSRecordPreamble_read(b), LAMBDA b1, p :
        CASE p.rtype.tag = "A" -> DNSARecord_read(b1, p)
          [] p.rtype.tag = "CNAME" -> DNSCNAMERecord_read(b1, p)
          [] p.rtype.tag = "NS" -> DNSNSRecord_read(b1, p)
          [] p.rtype.tag = "MX" -> DNSMXRecord_read(b1, p)
          [] p.rtype.tag = "TXT" -> DNSTXTRecord_read(b1, p)
          [] p.rtype.tag = "AAAA" -> DNSAAAARecord_read(b1, p)
          [] p.rtype.tag = "SOA" -> DNSSOARecord_read(b1, p)
          [] p.rtype.tag = "CAA" -> DNSCAARecord_read(b1, p, overflow_checks)
          [] p.rtype.tag = "SRV" -> DNSSRVRecord_read(b1, p)
          [] p.rtype.tag = "PTR" -> DNSPTRRecord_read(b1, p)
          [] p.rtype = QRType_UNKNOWN(0) -> DNSUNKNOWNRecord_read(b1, p)
          [] OTHER -> Fail(b1))

DNSRecord_write(r, b) ==
    CASE r.variant = "A" -> DNSARecord_write(r, b)
      [] r.variant = "CNAME" -> DNSCNAMERecord_write(r, b)
      [] r.variant = "NS" -> DNSNSRecord_write(r, b)
      [] r.variant = "MX" -> DNSMXRecord_write(r, b)
      [] r.variant = "TXT" -> DNSTXTRecord_write(r, b)
      [] r.variant = "AAAA" -> DNSAAAARecord_write(r, b)
      [] r.variant = "SOA" -> DNSSOARecord_write(r, b)
      [] r.variant = "CAA" -> DNSCAARecord_write(r, b)
      [] r.variant = "SRV" -> DNSSRVRecord_write(r, b)
      [] r.variant = "PTR" -> DNSPTRRecord_write(r, b)
      [] OTHER -> Fail(b)

----------------------------------------------------------------------------
(* DNSPacket::from_buffer and DNSPacket::write *)

(* for _ in 0..count: question.read and add_question *)
RECURSIVE ReadQuestions(_, _, _)
ReadQuestions(b, count, acc) ==
    IF count = 0 THEN Done(b, acc)
    ELSE Bind(DNSQuestion_read(b), LAMBDA b1, question_ :
              ReadQuestions(b1, count - 1, Append(acc, question_)))

(* for _ in 0..count: DNSRecord::read and add *)
RECURSIVE ReadRecords(_, _, _, _)
ReadRecords(b, count, acc, overflow_checks) ==
    IF count = 0 THEN Done(b, acc)
    ELSE Bind(DNSRecord_read(b, overflow_checks), LAMBDA b1, rec :
              ReadRecords(b1, count - 1, Append(acc, rec), overflow_checks))

from_buffer(b, overflow_checks) ==
    Bind(DNSHeaderSection_read(b), LAMBDA b1, header :
    Bind(ReadQuestions(b1, header.qdcount, <<>>), LAMBDA b2, questions :
    Bind(ReadRecords(b2, header.ancount, <<>>, overflow_checks),
         LAMBDA b3, answers :
    Bind(ReadRecords(b3, header.nscount, <<>>, overflow_checks),
         LAMBDA b4, authority :
    Bind(ReadRecords(b4, header.arcount, <<>>, overflow_checks),
         LAMBDA b5, additional :
        Done(b5, [header |-> header, questions |-> questions,
                  answers |-> answers, authority |-> authority,
                  additional |-> additional]))))))

RECURSIVE WriteQuestions(_, _)
WriteQuestions(b, qs) ==
    IF qs = <<>> THEN Done(b, <<>>)
    ELSE Then(DNSQuestion_write(Head(qs), b),
              LAMBDA b1 : WriteQuestions(b1, Tail(qs)))

RECURSIVE WriteRecords(_, _)
WriteRecords(b, recs) ==
    IF recs = <<>> THEN Done(b, <<>>)
    ELSE Then(DNSRecord_write(Head(recs), b),
              LAMBDA b1 : WriteRecords(b1, Tail(recs)))

(* DNSPacket::write: val is the packet with the counts it has set *)
DNSPacket_write(p, b) ==
    LET self == SyncCounts(p) IN
    Then(DNSHeaderSection_write(self.header, b), LAMBDA b1 :
    Then(WriteQuestions(b1, self.questions), LAMBDA b2 :
    Then(WriteRecords(b2, self.answers), LAMBDA b3 :
    Then(WriteRecords(b3, self.authority), LAMBDA b4 :
    Then(WriteRecords(b4, self.additional), LAMBDA b5 :
        Done(b5, self))))))

NoCase == [kind |-> "none"]
NoResult == [op |-> "none"]

----------------------------------------------------------------------------
(* Inputs of the resolver: what from_buffer yields for the datagrams the   *)
(* socket delivers                                                         *)

Err == [ok |-> FALSE]
Ok(x) == [ok |-> TRUE, val |-> x]

Clients == {"c1", "c2"}
QueryIds == {4919}

(* from_buffer leaves the qclass of a parsed question at ANY *)
ParsedQuestion(qname, qtype) == DNSQuestion_new(qname, qtype, "ANY")

RequestWith(qs) ==
    SyncCounts([DNSPacket_new EXCEPT !.header.id = 48879,
                                     !.header.rd = "Desired",
                                     !.questions = qs])

Req_one == RequestWith(<<ParsedQuestion(Name_ab, QRType_A)>>)
Req_none == RequestWith(<<>>)
Req_two == RequestWith(<<ParsedQuestion(Name_n, QRType_NS),
                         ParsedQuestion(Name_ab, QRType_A)>>)

RequestOutcomes == {Err, Ok(Req_one), Ok(Req_none), Ok(Req_two)}

Reply(rcode, an, ns, ar) ==
    SyncCounts([DNSPacket_new EXCEPT !.header.qr = "Response",
                                     !.header.rcode = rcode,
                                     !.answers = an,
                                     !.authority = ns,
                                     !.additional = ar])

(* a u32 is kept as its four octets, most significant first *)
Ttl3600 == <<0, 0, 14, 16>>

A_ab == DNSARecord_new(Name_ab, "IN", Ttl3600, Ip1)
Glue_n == DNSARecord_new(Name_n, "IN", Ttl3600, Ip2)
NS_b_n == DNSNSRecord_new(Name_b, "IN", Ttl3600, Name_n)
NS_root_n == DNSNSRecord_new(Root, "IN", Ttl3600, Name_n)

Rep_answer == Reply("NoError", <<A_ab>>, <<>>, <<>>)
Rep_nxdomain == Reply("NXDomain", <<>>, <<NS_root_n>>, <<Glue_n>>)
Rep_empty == Reply("NoError", <<>>, <<>>, <<>>)
Rep_referral_glue == Reply("NoError", <<>>, <<NS_b_n>>, <<Glue_n>>)
Rep_referral_noglue == Reply("NoError", <<>>, <<NS_b_n>>, <<>>)
Rep_root_glue == Reply("NoError", <<>>, <<NS_root_n>>, <<Glue_n>>)
Rep_root_noglue == Reply("NoError", <<>>, <<NS_root_n>>, <<>>)
Rep_unknown ==
    Reply("NoError", <<DNSUNKNOWNRecord_new(Name_ab, "IN", Ttl3600, <<>>)>>,
          <<>>, <<>>)

(* the name does not exist, the alias that led to it is in the answer *)
CNAME_ab_xb == DNSCNAMERecord_new(Name_ab, "IN", Ttl3600, Name_xb)
Rep_nxdomain_alias == Reply("NXDomain", <<CNAME_ab_xb>>, <<>>, <<>>)

ReplyOutcomes ==
    {Err, Ok(Rep_answer), Ok(Rep_nxdomain), Ok(Rep_empty),
     Ok(Rep_referral_glue), Ok(Rep_referral_noglue), Ok(Rep_root_glue),
     Ok(Rep_root_noglue), Ok(Rep_unknown), Ok(Rep_nxdomain_alias)}

----------------------------------------------------------------------------
(* The resolver *)

NoRet == [kind |-> "none"]
RetOk(p) == [kind |-> "ok", packet |-> p]
RetErr == [kind |-> "err"]

NoDatagram == [sent |-> FALSE]

(* a recursive_lookup invocation at the top of its loop *)
Frame(qname, qtype) ==
    [qname |-> qname, qtype |-> qtype, server |-> <<BootstrapIp, DnsPort>>,
     pc |-> "send", response |-> None, nsi |-> 0, sender |-> "none"]

Top == stack[Len(stack)]
Pop == SubSeq(stack, 1, Len(stack) - 1)
SetTop(f) == [stack EXCEPT ![Len(stack)] = f]

(* the resolver before its first handle_query *)
ResolverIdle ==
    /\ hpc = "idle"
    /\ outcome = "none"
    /\ src = "c1"
    /\ request = Err
    /\ question = None
    /\ response_packet = DNSPacket_new
    /\ stack = <<>>
    /\ ret = NoRet
    /\ lookups = 0
    /\ lastQuery = NoDatagram
    /\ sentToClient = <<>>
    /\ lookupFailed = FALSE

Init ==
    /\ ResolverIdle
    /\ buffer = BytePacketBuffer_new
    /\ qn = QnameIdle
    /\ cin = NoCase
    /\ cres = NoResult
    /\ nops = 0

(* handle_query, from its recv_from to the point where it either returns  *)
(* or enters recursive_lookup                                             *)
HandleQuery_ResponseHeader_NoRA(req) ==
    [DNSPacket_new EXCEPT !.header.id = req.header.id,
                          !.header.rd = "Desired",
                          !.header.qr = "Response"]

HandleQuery_ResponseHeader(req) ==
    [DNSPacket_new EXCEPT !.header.id = req.header.id,
                          !.header.rd = "Desired",
                          !.header.ra = "Available",
                          !.header.qr = "Response"]

NoQuestionRcode_Unset == "NoError"
NoQuestionRcode == "FormErr"
LookupErrRcode == "ServFail"

(* Vec::pop takes the last element *)
PopQuestion(qs) == IF Len(qs) = 0 THEN None ELSE Some(qs[Len(qs)])

(* the write of the response and the send_to that follows it; nothing was *)
(* sent before in this call of handle_query                                *)
SendResponse(p, to) ==
    IF WriteSucceeds(p)
    THEN /\ sentToClient' = <<[packet |-> SyncCounts(p), to |-> to]>>
         /\ outcome' = "ok"
    ELSE /\ sentToClient' = <<>>
         /\ outcome' = "err"

HandleQuery_Recv ==
    /\ hpc \in {"idle", "returned"}
    /\ UNCHANGED cvars
    /\ \E from \in Clients, d \in RequestOutcomes :
        /\ src' = from
        /\ request' = d
        /\ ret' = NoRet
        /\ lookups' = 0
        /\ lastQuery' = NoDatagram
        /\ lookupFailed' = FALSE
        /\ IF ~d.ok
           THEN /\ hpc' = "returned"
                /\ outcome' = "err"
                /\ question' = None
                /\ response_packet' = DNSPacket_new
                /\ sentToClient' = <<>>
                /\ stack' = <<>>
           ELSE LET rp == HandleQuery_ResponseHeader(d.val)
                    q == PopQuestion(d.val.questions)
                IN  /\ question' = q
                    /\ IF q.some
                       THEN /\ hpc' = "resolving"
                            /\ outcome' = "none"
                            /\ response_packet' = rp
                            /\ sentToClient' = <<>>
                            /\ stack' = <<Frame(q.val.qname, q.val.qtype)>>
                       ELSE LET fe == [rp EXCEPT !.header.rcode = NoQuestionRcode]
                            IN  /\ hpc' = "returned"
                                /\ response_packet' = fe
                                /\ stack' = <<>>
                                /\ SendResponse(fe, from)

(* recursive_lookup returns r to its caller *)
Return(r) ==
    /\ stack' = Pop
    /\ ret' = r

(* lookup, up to and including send_to; the id comes from the clock *)
LookupQuery_RD(id, qname, qtype) ==
    SyncCounts([DNSPacket_new EXCEPT
        !.header.id = id,
        !.header.qdcount = 1,
        !.header.rd = "Desired",
        !.questions = <<DNSQuestion_new(qname, qtype, "IN")>>])

LookupQuery(id, qname, qtype) ==
    SyncCounts([DNSPacket_new EXCEPT
        !.header.id = id,
        !.header.qdcount = 1,
        !.header.rd = "NonDesired",
        !.questions = <<DNSQuestion_new(qname, qtype, "IN")>>])

Lookup_Send ==
    /\ hpc = "resolving"
    /\ Len(stack) > 0
    /\ Top.pc = "send"
    /\ lookups < MaxLookups
    /\ lookups' = lookups + 1
    /\ \E id \in QueryIds, sendOk \in BOOLEAN :
        IF sendOk
        THEN /\ lastQuery' = [sent |-> TRUE,
                              packet |-> LookupQuery(id, Top.qname, Top.qtype),
                              to |-> Top.server]
             /\ stack' = SetTop([Top EXCEPT !.pc = "wait"])
             /\ UNCHANGED <<ret, lookupFailed>>
        ELSE /\ Return(RetErr)
             /\ lookupFailed' = TRUE
             /\ UNCHANGED lastQuery
    /\ UNCHANGED <<hpc, outcome, src, request, question, response_packet,
                   sentToClient>>
    /\ UNCHANGED cvars

(* what recv_from can hand to lookup: the socket is the one clients send  *)
(* their queries to, and recv_from takes the next datagram whoever sent it *)
QueriedServer == "queried"

SocketDatagrams ==
    {[sender |-> QueriedServer, d |-> d] : d \in ReplyOutcomes}
        \cup {[sender |-> c, d |-> Ok(Req_one)] : c \in Clients}

(* lookup, from recv_from to its return; recursive_lookup returns the Err *)
Lookup_Recv ==
    /\ hpc = "resolving"
    /\ Len(stack) > 0
    /\ Top.pc = "wait"
    /\ \E dg \in SocketDatagrams :
        IF dg.d.ok
        THEN /\ stack' = SetTop([Top EXCEPT !.pc = "got",
                                            !.response = Some(dg.d.val),
                                            !.sender = dg.sender])
             /\ UNCHANGED <<ret, lookupFailed>>
        ELSE /\ Return(RetErr)
             /\ lookupFailed' = TRUE
    /\ UNCHANGED <<hpc, outcome, src, request, question, response_packet,
                   lookups, lastQuery, sentToClient>>
    /\ UNCHANGED cvars

(* the reply ends the loop of recursive_lookup *)
IsFinalReply_NoNXDomain(response) ==
    Len(response.answers) > 0 /\ response.header.rcode = "NoError"

IsFinalReply(response) ==
    \/ Len(response.answers) > 0 /\ response.header.rcode = "NoError"
    \/ response.header.rcode = "NXDomain"

(* find_next_server continued at index i of its loop, for the frame f that *)
(* holds the reply: switch server, start a nested recursive_lookup, or    *)
(* return the reply                                                       *)
FindNextServer_From(f, i) ==
    LET r == find_next_server_at(f.response.val, i)
    IN  CASE r.kind = "some" ->
               /\ stack' = SetTop([f EXCEPT !.server = r.server,
                                            !.pc = "send",
                                            !.response = None,
                                            !.nsi = 0])
               /\ ret' = NoRet
          [] r.kind = "recurse" ->
               /\ Len(stack) < MaxDepth
               /\ stack' = Append(SetTop([f EXCEPT !.pc = "nested",
                                                   !.nsi = i]),
                                  Frame(r.host, QRType_A))
               /\ ret' = NoRet
          [] OTHER ->
               Return(RetOk(f.response.val))

RecursiveLookup_Inspect ==
    /\ hpc = "resolving"
    /\ Len(stack) > 0
    /\ Top.pc = "got"
    /\ IF IsFinalReply(Top.response.val)
       THEN Return(RetOk(Top.response.val))
       ELSE FindNextServer_From(Top, 1)
    /\ UNCHANGED <<hpc, outcome, src, request, question, response_packet,
                   lookups, lastQuery, sentToClient, lookupFailed>>
    /\ UNCHANGED cvars

(* the nested recursive_lookup returned into find_next_server *)
FindNextServer_Resume ==
    /\ hpc = "resolving"
    /\ Len(stack) > 0
    /\ Top.pc = "nested"
    /\ ret.kind # "none"
    /\ LET ip == IF ret.kind = "ok" THEN get_random_a(ret.packet) ELSE None
       IN  IF ip.some
           THEN /\ stack' = SetTop([Top EXCEPT !.server = <<ip.val, DnsPort>>,
                                               !.pc = "send",
                                               !.response = None,
                                               !.nsi = 0])
                /\ ret' = NoRet
           ELSE FindNextServer_From(Top, Top.nsi + 1)
    /\ UNCHANGED <<hpc, outcome, src, request, question, response_packet,
                   lookups, lastQuery, sentToClient, lookupFailed>>
    /\ UNCHANGED cvars

(* handle_query after recursive_lookup returned *)
HandleQuery_Fill_NoAuthority(rp, q, r) ==
    IF r.kind = "ok"
    THEN [rp EXCEPT !.questions = Append(rp.questions, q),
                    !.header.rcode = r.packet.header.rcode,
                    !.answers = rp.answers \o r.packet.answers,
                    !.additional = rp.additional \o r.packet.additional]
    ELSE [rp EXCEPT !.header.rcode = LookupErrRcode]

HandleQuery_Fill(rp, q, r) ==
    IF r.kind = "ok"
    THEN [rp EXCEPT !.questions = Append(rp.questions, q),
                    !.header.rcode = r.packet.header.rcode,
                    !.answers = rp.answers \o r.packet.answers,
                    !.authority = rp.authority \o r.packet.authority,
                    !.additional = rp.additional \o r.packet.additional]
    ELSE [rp EXCEPT !.header.rcode = LookupErrRcode]

HandleQuery_Respond ==
    /\ hpc = "resolving"
    /\ stack = <<>>
    /\ ret.kind # "none"
    /\ LET rp == HandleQuery_Fill(response_packet, question.val, ret)
       IN  /\ response_packet' = rp
           /\ SendResponse(rp, src)
    /\ hpc' = "returned"
    /\ ret' = NoRet
    /\ UNCHANGED <<src, request, question, stack, lookups, lastQuery,
                   lookupFailed>>
    /\ UNCHANGED cvars

Next ==
    \/ HandleQuery_Recv
    \/ Lookup_Send
    \/ Lookup_Recv
    \/ RecursiveLookup_Inspect
    \/ FindNextServer_Resume
    \/ HandleQuery_Respond

Spec == Init /\ [][Next]_vars

----------------------------------------------------------------------------
(* Properties of the resolver, checked under Spec *)

(* owner equals qname or is a parent domain of it, label by label *)
LabelSuffix(owner, qname) ==
    \/ owner = Root
    \/ owner = qname
    \/ ends_with(qname, <<Dot>> \o owner)

(* a reply that is neither an answer nor NXDomain *)
IsReferralCase(p) ==
    /\ ~(Len(p.answers) > 0 /\ p.header.rcode = "NoError")
    /\ p.header.rcode # "NXDomain"

(* addresses of the A records of the additional section that belong to the *)
(* target of an NS record whose owner is a label-wise suffix of qname       *)
GluedAddrs(p, qname) ==
    {p.additional[j].rdata :
        j \in {k \in 1..Len(p.additional) :
                 /\ p.additional[k].variant = "A"
                 /\ \E i \in 1..Len(p.authority) :
                      /\ p.authority[i].variant = "NS"
                      /\ LabelSuffix(p.authority[i].preamble.name, qname)
                      /\ p.authority[i].rdata = p.additional[k].preamble.name}}

(* targets of such NS records that have no A record in the additional      *)
(* section                                                                  *)
UngluedTargets(p, qname) ==
    {p.authority[i].rdata :
        i \in {k \in 1..Len(p.authority) :
                 /\ p.authority[k].variant = "NS"
                 /\ LabelSuffix(p.authority[k].preamble.name, qname)
                 /\ \A j \in 1..Len(p.additional) :
                      ~(/\ p.additional[j].variant = "A"
                        /\ p.additional[j].preamble.name = p.authority[k].rdata)}}

Inspecting == hpc = "resolving" /\ Len(stack) > 0 /\ Top.pc = "got"

(* C1: one call of recursive_lookup, nested calls included, issues at most *)
(* 16 upstream lookups.                                                     *)
C1_IterationCap == lookups <= 16

(* C2: when the reply held by recursive_lookup(qname, qtype) is neither an *)
(* answer nor NXDomain and an NS record whose owner is a label-wise suffix *)
(* of qname has an A record for its target in the additional section, the  *)
(* next lookup carries the same qname and qtype and goes to that address   *)
(* on port 53.                                                              *)
C2_GluedReferralFollowed ==
    [][ (/\ Inspecting
         /\ IsReferralCase(Top.response.val)
         /\ GluedAddrs(Top.response.val, Top.qname) # {})
        => (/\ Len(stack') = Len(stack)
            /\ stack'[Len(stack)].pc = "send"
            /\ stack'[Len(stack)].qname = Top.qname
            /\ stack'[Len(stack)].qtype = Top.qtype
            /\ \E ip \in GluedAddrs(Top.response.val, Top.qname) :
                 stack'[Len(stack)].server = <<ip, 53>>) ]_vars

(* C3: when the referral names an NS target (owner a label-wise suffix of  *)
(* qname) that has no A record in the additional section, the resolver     *)
(* runs recursive_lookup(target, A).                                        *)
C3_UngluedTargetResolved ==
    [][ (/\ Inspecting
         /\ IsReferralCase(Top.response.val)
         /\ GluedAddrs(Top.response.val, Top.qname) = {}
         /\ UngluedTargets(Top.response.val, Top.qname) # {})
        => (/\ Len(stack') = Len(stack) + 1
            /\ stack'[Len(stack')].qname
                 \in UngluedTargets(Top.response.val, Top.qname)
            /\ stack'[Len(stack')].qtype = QRType_A) ]_vars

(* C8: a request that cannot be decoded is still answered, with rcode      *)
(* FormErr, to its sender.                                                  *)
C8_UndecodableRequestAnswered ==
    (hpc = "returned" /\ ~request.ok)
        => /\ Len(sentToClient) = 1
           /\ sentToClient[1].to = src
           /\ sentToClient[1].packet.header.rcode = "FormErr"

(* C9: a decoded request with qdcount = 0 causes no upstream lookup and    *)
(* exactly one response, sent to the request's source, with rcode FormErr  *)
(* and four empty sections (all four counts 0).                             *)
C9_NoQuestionFormErr ==
    (hpc = "returned" /\ request.ok /\ request.val.header.qdcount = 0)
        => /\ lookups = 0
           /\ ~lastQuery.sent
           /\ Len(sentToClient) = 1
           /\ sentToClient[1].to = src
           /\ LET p == sentToClient[1].packet
              IN  /\ p.header.rcode = "FormErr"
                  /\ p.questions = <<>> /\ p.answers = <<>>
                  /\ p.authority = <<>> /\ p.additional = <<>>
                  /\ p.header.qdcount = 0 /\ p.header.ancount = 0
                  /\ p.header.nscount = 0 /\ p.header.arcount = 0

C9_Witness ==
    /\ hpc = "returned" /\ request.ok /\ request.val.header.qdcount = 0
    /\ Len(sentToClient) = 1
    /\ src = "c2"

(* C10: if any lookup made for a client query failed, at the top level or  *)
(* in a nested recursive_lookup, the response sent to the client has rcode *)
(* ServFail.                                                                *)
C10_LookupFailureServFail ==
    (hpc = "returned" /\ lookupFailed)
        => /\ Len(sentToClient) = 1
           /\ sentToClient[1].packet.header.rcode = "ServFail"

(* handle_query holds the value its recursive_lookup returned *)
Responding == hpc = "resolving" /\ stack = <<>> /\ ret.kind # "none"

C12_NXDomainEmptyAnswer ==
    [][ /\ (Inspecting /\ Top.response.val.header.rcode = "NXDomain")
              => /\ stack' = Pop
                 /\ ret' = RetOk(Top.response.val)
                 /\ lookups' = lookups
        /\ (/\ Responding /\ ret.kind = "ok"
            /\ ret.packet.header.rcode = "NXDomain"
            /\ Len(sentToClient') = 1)
              => LET p == sentToClient'[1].packet
                 IN  /\ p.header.rcode = "NXDomain"
                     /\ p.answers = <<>>
                     /\ p.questions = <<question.val>> ]_vars

(* C12, amended: a reply with rcode NXDomain ends the recursive_lookup     *)
(* that received it at once, with that reply and no further lookup; when   *)
(* it is the reply to the client's question, the response sent has rcode   *)
(* NXDomain, the question, and the answer section of that reply, which is  *)
(* empty when the reply's is.                                               *)
C12_NXDomainPassthrough ==
    [][ /\ (Inspecting /\ Top.response.val.header.rcode = "NXDomain")
              => /\ stack' = Pop
                 /\ ret' = RetOk(Top.response.val)
                 /\ lookups' = lookups
        /\ (/\ Responding /\ ret.kind = "ok"
            /\ ret.packet.header.rcode = "NXDomain"
            /\ Len(sentToClient') = 1)
              => LET p == sentToClient'[1].packet
                 IN  /\ p.header.rcode = "NXDomain"
                     /\ p.answers = ret.packet.answers
                     /\ p.questions = <<question.val>> ]_vars

C12_Witness ==
    /\ hpc = "returned"
    /\ lookups = 1
    /\ Len(sentToClient) = 1
    /\ sentToClient[1].packet.header.rcode = "NXDomain"
    /\ sentToClient[1].packet.answers = <<>>
    /\ sentToClient[1].packet.authority = <<NS_root_n>>
    /\ sentToClient[1].packet.questions = request.val.questions

(* the header octets DNSPacket::write puts in a new buffer for p *)
WrittenHeader(p) == DNSPacket_write(p, BytePacketBuffer_new)

(* C13: every response handed to send_to carries the id of the request it  *)
(* answers, QR = 1, RD = 1 and RA = 1, in the packet and in the octets      *)
(* written for it, and goes to the source address of that request.          *)
C13_ResponseHeader ==
    \A i \in 1..Len(sentToClient) :
        LET d == sentToClient[i]
            w == WrittenHeader(d.packet)
        IN  /\ request.ok
            /\ d.to = src
            /\ d.packet.header.id = request.val.header.id
            /\ d.packet.header.qr = "Response"
            /\ d.packet.header.rd = "Desired"
            /\ d.packet.header.ra = "Available"
            /\ w.ok
            /\ w.b.buf[1] * 256 + w.b.buf[2] = request.val.header.id
            /\ w.b.buf[3] \div 128 = 1
            /\ w.b.buf[3] % 2 = 1
            /\ w.b.buf[4] \div 128 = 1

C13_Witness ==
    /\ hpc = "returned"
    /\ src = "c2"
    /\ Len(sentToClient) = 1
    /\ sentToClient[1].packet.header.rcode = "ServFail"

(* C19: every datagram lookup hands to send_to is a query with RD = 0,     *)
(* qdcount = 1 and one question, the qname and qtype its recursive_lookup  *)
(* was called with, in the packet and in the octets written for it.         *)
C19_UpstreamQueryShape ==
    [][ (lookups' = lookups + 1 /\ Len(stack) > 0 /\ Len(stack') = Len(stack))
        => LET d == lastQuery'
               w == WrittenHeader(d.packet)
           IN  /\ d.sent
               /\ d.packet.header.qr = "Query"
               /\ d.packet.header.rd = "NonDesired"
               /\ d.packet.header.qdcount = 1
               /\ Len(d.packet.questions) = 1
               /\ d.packet.questions[1].qname = Top.qname
               /\ d.packet.questions[1].qtype = Top.qtype
               /\ w.ok
               /\ w.b.buf[3] \div 128 = 0
               /\ w.b.buf[3] % 2 = 0
               /\ w.b.buf[5] * 256 + w.b.buf[6] = 1 ]_vars

C19_Witness ==
    /\ Len(stack) = 2
    /\ Top.pc = "wait"
    /\ lastQuery.sent
    /\ lastQuery.packet.questions[1].qname = Name_n
    /\ lastQuery.packet.header.rd = "NonDesired"

(* C28: the question handle_query resolves and copies into the response   *)
(* is the first question of the request, however many it carries.          *)
C28_FirstQuestionHandled ==
    (request.ok /\ Len(request.val.questions) > 0 /\ hpc # "idle")
        => /\ question = Some(request.val.questions[1])
           /\ \A i \in 1..Len(stack) :
                 i = 1 => /\ stack[i].qname = request.val.questions[1].qname
                          /\ stack[i].qtype = request.val.questions[1].qtype
           /\ \A i \in 1..Len(sentToClient) :
                 Len(sentToClient[i].packet.questions) > 0
                    => sentToClient[i].packet.questions
                          = <<request.val.questions[1]>>

(* C30: the header bits the program does not set are zero in the octets    *)
(* it emits: flag octets 0 and 1 of an upstream query are both 0, and a    *)
(* client response has only QR and RD set in flag octet 0 and only RA and  *)
(* the rcode in flag octet 1.                                               *)
C30_UnsetHeaderBitsZero ==
    /\ lastQuery.sent
          => LET w == WrittenHeader(lastQuery.packet)
             IN  /\ w.b.buf[3] = 0
                 /\ w.b.buf[4] = 0
    /\ \A i \in 1..Len(sentToClient) :
          LET w == WrittenHeader(sentToClient[i].packet)
          IN  /\ w.b.buf[3] = 128 + 1
              /\ w.b.buf[4] \div 16 = 8

(* C29: a datagram from a sender other than the queried server is never  *)
(* taken as the reply: every response lookup has returned was sent by the  *)
(* server the query went to.                                               *)
C29_ReplyFromQueriedServer ==
    \A i \in 1..Len(stack) :
        stack[i].response.some => stack[i].sender = QueriedServer

----------------------------------------------------------------------------
(* SpecLive: the resolver with every step of its own taken eventually; the *)
(* arrival of a reply is left to the upstream server                        *)

SpecLive ==
    /\ Spec
    /\ WF_vars(Lookup_Send)
    /\ WF_vars(RecursiveLookup_Inspect)
    /\ WF_vars(FindNextServer_Resume)
    /\ WF_vars(HandleQuery_Respond)

(* lookup is blocked in recv_from *)
Waiting == hpc = "resolving" /\ Len(stack) > 0 /\ Top.pc = "wait"

(* C18: a lookup that waits for the reply of its upstream server returns   *)
(* eventually, reply or not.                                                *)
C18_LookupReturns == Waiting ~> ~Waiting

----------------------------------------------------------------------------
(* SpecQname: read_qname on a datagram that holds names at known offsets   *)

(* the octets of segs, a set of [at, data], laid over a zeroed buffer *)
Datagram(segs) ==
    [i \in 1..BufSize |->
        IF \E sg \in segs : i > sg.at /\ i <= sg.at + Len(sg.data)
        THEN LET sg == CHOOSE x \in segs : i > x.at /\ i <= x.at + Len(x.data)
             IN  sg.data[i - sg.at]
        ELSE 0]

Seg(at, data) == [at |-> at, data |-> data]

(* "a.B" spelled out at 12; pointers at 20, 22, ..., 34, each to the one   *)
(* before it, the first to 12; "c" followed by a pointer to 12 at 40; a    *)
(* pointer to itself at 50; two pointers to each other at 52 and 54; a     *)
(* pointer to offset 600 at 60; at 505 a label that runs past the end, its *)
(* last octet, the last of the buffer, being the first half of a pointer   *)
NameSegs(spelled) ==
    {Seg(12, spelled),
     Seg(20, <<192, 12, 192, 20, 192, 22, 192, 24,
               192, 26, 192, 28, 192, 30, 192, 32>>),
     Seg(40, <<1, 99, 192, 12>>),
     Seg(45, <<192, 12>>),
     Seg(50, <<192, 50, 192, 54, 192, 52>>),
     Seg(60, <<194, 88>>),
     Seg(505, <<7, 97, 97, 97, 97, 97, 192>>)}

QnameDatagrams ==
    {Datagram(NameSegs(<<1, 97, 1, 66, 0>>)),
     Datagram(NameSegs(<<1, 65, 1, 98, 0>>))}

Name_c_ab == <<99, Dot>> \o Name_ab

(* a name starting at offset at: the pointer hops its decoding needs when  *)
(* the pointers do not form a cycle, whether it is well-formed, the name   *)
(* spelled, and the offset that follows its first pointer or terminator    *)
QnameCase(at, hops, cyclic, wellformed, name, endpos) ==
    [kind |-> "qname", at |-> at, hops |-> hops, cyclic |-> cyclic,
     wellformed |-> wellformed, name |-> name, endpos |-> endpos]

QnameCases ==
    {QnameCase(12, 0, FALSE, TRUE, Name_ab, 17),
     QnameCase(40, 1, FALSE, TRUE, Name_c_ab, 44),
     QnameCase(45, 1, FALSE, TRUE, Name_ab, 47),
     QnameCase(50, 0, TRUE, FALSE, <<>>, 52),
     QnameCase(52, 0, TRUE, FALSE, <<>>, 54),
     QnameCase(60, 1, FALSE, FALSE, <<>>, 62),
     QnameCase(505, 0, FALSE, FALSE, <<>>, 505),
     QnameCase(511, 0, FALSE, FALSE, <<>>, 513)}
    \cup {QnameCase(18 + 2 * k, k, FALSE, TRUE, Name_ab, 20 + 2 * k) :
            k \in 1..8}

InitQname ==
    /\ ResolverIdle
    /\ \E c \in QnameCases, d \in QnameDatagrams :
        /\ cin = c
        /\ buffer = [buf |-> d, pos |-> c.at]
        /\ qn = QnameStart([buf |-> d, pos |-> c.at], <<>>)
    /\ cres = NoResult
    /\ nops = 0

ReadQname_Iter ==
    /\ qn.status = "running"
    /\ qn' = QnameIter(buffer.buf, qn)
    /\ buffer' = [buffer EXCEPT !.pos = qn'.cursor]
    /\ UNCHANGED <<cin, cres, nops>>
    /\ UNCHANGED rvars

NextQname == ReadQname_Iter

SpecQname == InitQname /\ [][NextQname]_vars

NeedsMoreThanMaxHops(c) == c.cyclic \/ c.hops > 5

QnameIterationBound == 7 * (BufSize + 1)

(* C7: a name is accepted only if at most 5 pointers were followed; a      *)
(* well-formed name that needs 5 or fewer hops is decoded; a name that     *)
(* needs more than 5 hops, every pointer cycle included, is rejected; and  *)
(* the loop ends after a bounded number of iterations.                     *)
C7_JumpCap ==
    /\ qn.status = "ok" => qn.jumps_performed <= 5
    /\ (qn.status \in {"ok", "err"} /\ cin.wellformed /\ cin.hops <= 5)
          => (qn.status = "ok" /\ qn.outstr = cin.name)
    /\ (qn.status \in {"ok", "err"} /\ NeedsMoreThanMaxHops(cin))
          => qn.status = "err"
    /\ qn.iterations <= QnameIterationBound
    /\ qn.status = "running" => ENABLED ReadQname_Iter

C7_Witness ==
    /\ cin.hops = 6
    /\ qn.status = "err"
    /\ qn.jumps_performed = 6

(* where the octets say the cursor belongs after the name at p: behind the *)
(* first pointer, or behind the terminating zero when no pointer precedes  *)
(* it                                                                      *)
RECURSIVE BehindName(_, _)
BehindName(buf, p) ==
    IF p >= BufSize THEN p
    ELSE IF buf[p + 1] >= 192 THEN p + 2
    ELSE IF buf[p + 1] = 0 THEN p + 1
    ELSE BehindName(buf, p + 1 + buf[p + 1])

(* C26: read_qname moves the cursor once: a step that moves it finds it    *)
(* where the call started; a name that is decoded leaves it behind the     *)
(* terminating zero, or behind the first pointer however many jumps        *)
(* follow; a self-pointing pointer at the start leaves it at most two      *)
(* octets on.                                                              *)
C26_CursorMovedOnce ==
    [][/\ buffer.pos' # buffer.pos => buffer.pos = cin.at
       /\ qn.status' = "ok"
            => /\ buffer.pos' = BehindName(buffer.buf, cin.at)
               /\ buffer.pos' # cin.at
       /\ (qn.status' = "err" /\ cin.cyclic)
            => buffer.pos' <= cin.at + 2]_vars

C26_Witness ==
    /\ qn.status = "ok"
    /\ qn.jumps_performed = 5
    /\ buffer.pos = cin.at + 2

----------------------------------------------------------------------------
(* SpecCodec: packet-buffer operations applied, one after another, to a    *)
(* buffer that holds a received datagram, the cursor starting where the    *)
(* case's item starts                                                      *)

MaxOps == 2

Name_example_com == <<101, 120, 97, 109, 112, 108, 101, Dot, 99, 111, 109>>

(* the reply of the A-record scenario: id 0xBEEF, QR and RA set, one       *)
(* question example.com A IN at 12, one answer at 29                       *)
ReplyHeaderOctets == <<190, 239, 128, 128, 0, 1, 0, 1, 0, 0, 0, 0>>
QuestionOctets ==
    <<7, 101, 120, 97, 109, 112, 108, 101, 3, 99, 111, 109, 0, 0, 1, 0, 1>>
AnswerAt == Len(ReplyHeaderOctets) + Len(QuestionOctets)

ReplyDatagram(answer) ==
    Datagram({Seg(0, ReplyHeaderOctets), Seg(12, QuestionOctets),
              Seg(AnswerAt, answer)})

(* a record on the wire: owner, type, class, TTL, rdlength, rdata *)
WireRecord(owner, typenum, classnum, ttl, rdata) ==
    owner \o <<typenum \div 256, typenum % 256>>
          \o <<classnum \div 256, classnum % 256>> \o ttl
          \o <<Len(rdata) \div 256, Len(rdata) % 256>> \o rdata

WireA(owner, ttl, addr) == WireRecord(owner, 1, 1, ttl, addr)

TtlZero == <<0, 0, 0, 0>>

CodecCase(kind, dg, at, name, ttl, addr, endpos) ==
    [kind |-> kind, dg |-> dg, at |-> at, name |-> name, ttl |-> ttl,
     addr |-> addr, endpos |-> endpos]

(* owners as they stand on the wire and as they read *)
WireOwners ==
    {<< <<192, 12>>, Name_example_com >>, << <<1, 97, 1, 98, 0>>, Name_ab >>}

ARecordCases ==
    {CodecCase("a_record", ReplyDatagram(WireA(o[1], t, a)), AnswerAt, o[2],
               t, a, AnswerAt + Len(WireA(o[1], t, a))) :
        o \in WireOwners, t \in {Ttl3600, TtlZero}, a \in {Ip1, Ip2}}

CodecCases ==
    ARecordCases
    \cup {CodecCase("message", ReplyDatagram(WireA(<<192, 12>>, Ttl3600, Ip1)),
                    0, Name_example_com, Ttl3600, Ip1, 45),
          CodecCase("unknown_record",
                    ReplyDatagram(<<192, 12, 0, 0, 0, 1, 0, 0, 14, 16, 2, 88>>),
                    AnswerAt, Name_example_com, Ttl3600, TtlZero, 641),
          CodecCase("unknown_type",
                    ReplyDatagram(WireRecord(<<192, 12>>, 99, 1, Ttl3600,
                                             <<7, 8, 9>>)
                                  \o WireA(<<192, 12>>, Ttl3600, Ip1)),
                    AnswerAt, Name_example_com, Ttl3600, TtlZero,
                    AnswerAt + Len(WireRecord(<<192, 12>>, 99, 1, Ttl3600,
                                              <<7, 8, 9>>))),
          CodecCase("name", Datagram({Seg(511, <<192>>)}), 511, Root,
                    TtlZero, TtlZero, 512),
          CodecCase("new", Zeros, 0, Root, TtlZero, TtlZero, 0)}

InitCodec ==
    /\ ResolverIdle
    /\ qn = QnameIdle
    /\ nops = 0
    /\ cres = NoResult
    /\ \E c \in CodecCases :
          /\ cin = [c EXCEPT !.dg = <<>>]
          /\ buffer = [buf |-> c.dg, pos |-> c.at]

(* one operation applied to the buffer: r is what it returned *)
Applied(op, r) ==
    /\ nops' = nops + 1
    /\ buffer' = r.b
    /\ cres' = [op |-> op, ok |-> r.ok, panic |-> r.panic, val |-> r.val]
    /\ UNCHANGED <<qn, cin>>
    /\ UNCHANGED rvars

StepArgs == {1, 600}
SeekArgs == {0, 12, 29, 511, 513}

Op_step ==
    /\ nops < MaxOps
    /\ \E steps \in StepArgs : Applied("step", step(buffer, steps))

Op_seek ==
    /\ nops < MaxOps
    /\ \E pos \in SeekArgs : Applied("seek", seek(buffer, pos))

Op_read_u8 ==
    /\ nops < MaxOps
    /\ Applied("read_u8", read_u8(buffer))

Op_read_u16 ==
    /\ nops < MaxOps
    /\ Applied("read_u16", read_u16(buffer))

Op_read_u32 ==
    /\ nops < MaxOps
    /\ Applied("read_u32", read_u32(buffer))

Op_read_u128 ==
    /\ nops < MaxOps
    /\ Applied("read_u128", read_u128(buffer))

Op_write_u8 ==
    /\ nops < MaxOps
    /\ Applied("write_u8", write_u8(buffer, 255))

Op_write_u16 ==
    /\ nops < MaxOps
    /\ Applied("write_u16", write_u16(buffer, 257))

Op_write_u32 ==
    /\ nops < MaxOps
    /\ Applied("write_u32", write_u32(buffer, Ttl3600))

Op_write_u128 ==
    /\ nops < MaxOps
    /\ Applied("write_u128",
               write_u128(buffer, Ip1 \o Ip2 \o Ip1 \o Ip2))

Op_read_qname ==
    /\ nops < MaxOps
    /\ Applied("read_qname", read_qname(buffer, <<>>))

Op_write_qname ==
    /\ nops < MaxOps
    /\ Applied("write_qname", write_qname(buffer, Name_ab))

Op_header_read ==
    /\ nops < MaxOps
    /\ Applied("DNSHeaderSection::read", DNSHeaderSection_read(buffer))

Op_question_read ==
    /\ nops < MaxOps
    /\ Applied("DNSQuestion::read", DNSQuestion_read(buffer))

Op_record_read ==
    /\ nops < MaxOps
    /\ \E overflow_checks \in BOOLEAN :
          Applied("DNSRecord::read",
                  DNSRecord_read(buffer, overflow_checks))

NextCodec ==
    \/ Op_step
    \/ Op_seek
    \/ Op_read_u8
    \/ Op_read_u16
    \/ Op_read_u32
    \/ Op_read_u128
    \/ Op_write_u8
    \/ Op_write_u16
    \/ Op_write_u32
    \/ Op_write_u128
    \/ Op_read_qname
    \/ Op_write_qname
    \/ Op_header_read
    \/ Op_question_read
    \/ Op_record_read

SpecCodec == InitCodec /\ [][NextCodec]_vars

(* C4: DNSRecord::read applied where a wire-format A record with owner n,  *)
(* class IN, TTL t, rdlength 4 and address a starts returns A(n, t, a) and *)
(* leaves the cursor on the first octet after the record.                  *)
C4_ARecordDecoded ==
    (cin.kind = "a_record" /\ nops = 1 /\ cres.op = "DNSRecord::read")
        => /\ cres.ok
           /\ cres.val = DNSARecord_new(cin.name, "IN", cin.ttl, cin.addr)
           /\ buffer.pos = cin.endpos

(* C17: DNSRecord::read applied where a record of type code 99, which is  *)
(* none of the ten known codes, starts succeeds: it returns an UNKNOWN     *)
(* record that keeps the type code, the owner and the TTL, and leaves the  *)
(* cursor rdlength octets behind the preamble, on the first octet of the   *)
(* record that follows.                                                     *)
C17_UnknownTypeKept ==
    (cin.kind = "unknown_type" /\ nops = 1 /\ cres.op = "DNSRecord::read")
        => /\ cres.ok
           /\ cres.val.variant = "UNKNOWN"
           /\ cres.val.preamble.rtype = QRType_UNKNOWN(99)
           /\ cres.val.preamble.name = cin.name
           /\ cres.val.preamble.ttl = cin.ttl
           /\ buffer.pos = cin.endpos

(* C6: after any sequence of packet-buffer operations the cursor is        *)
(* between 0 and 512, and step and seek fail rather than move it above 512 *)
C6_CursorBound ==
    /\ 0 <= buffer.pos
    /\ buffer.pos <= 512

----------------------------------------------------------------------------
(* SpecRoundTrip: a message is written with DNSPacket::write, the octets   *)
(* written travel as a datagram, and DNSPacket::from_buffer parses them    *)

U32(n) == <<0, 0, n \div 256, n % 256>>

Text_hi == <<104, 105>>
Text_issue == <<105, 115, 115, 117, 101>>

SampleRecords ==
    {DNSARecord_new(Name_ab, "IN", Ttl3600, Ip1),
     DNSAAAARecord_new(Name_ab, "IN", Ttl3600, Ip1 \o Ip2 \o Ip1 \o Ip2),
     DNSNSRecord_new(Name_b, "IN", Ttl3600, Name_n),
     DNSCNAMERecord_new(Name_ab, "IN", Ttl3600, Name_xb),
     DNSPTRRecord_new(Name_ab, "IN", Ttl3600, Name_n),
     DNSMXRecord_new(Name_b, "IN", Ttl3600, <<10, Name_n>>),
     DNSSOARecord_new(Name_b, "IN", Ttl3600,
                      <<Name_n, Name_xb, U32(1), U32(2), U32(3), U32(4),
                        U32(5)>>),
     DNSSRVRecord_new(Name_ab, "IN", Ttl3600, <<1, 2, DnsPort, Name_n>>),
     DNSTXTRecord_new(Name_ab, "IN", Ttl3600, Text_hi),
     DNSCAARecord_new(Name_b, "IN", Ttl3600, <<0, Text_issue, Text_hi>>)}

SampleHeaders ==
    {[DNSHeaderSection_new EXCEPT !.id = 48879],
     [DNSHeaderSection_new EXCEPT !.id = 4919, !.qr = "Response",
                                  !.rd = "Desired", !.ra = "Available",
                                  !.rcode = "NXDomain"]}

SampleQuestions ==
    {<<>>,
     <<DNSQuestion_new(Name_ab, QRType_A, "IN")>>,
     <<DNSQuestion_new(Name_ab, QRType_A, "ANY"),
       DNSQuestion_new(Name_n, QRType_NS, "ANY")>>}

SampleSections ==
    {<< <<>>, <<>>, <<>> >>}
    \cup {<< <<r>>, <<>>, <<>> >> : r \in SampleRecords}
    \cup {<< <<>>, <<r>>, <<>> >> : r \in SampleRecords}
    \cup {<< <<>>, <<>>, <<r>> >> : r \in SampleRecords}

Messages ==
    {[header |-> h, questions |-> q, answers |-> s[1], authority |-> s[2],
      additional |-> s[3]] :
        h \in SampleHeaders, q \in SampleQuestions, s \in SampleSections}

InitRoundTrip ==
    /\ ResolverIdle
    /\ qn = QnameIdle
    /\ nops = 0
    /\ cres = NoResult
    /\ buffer = BytePacketBuffer_new
    /\ \E m \in Messages : cin = [kind |-> "message", m |-> m]

(* the datagram made of the octets written so far, in a new buffer *)
Receive(b) ==
    [buf |-> [i \in 1..BufSize |-> IF i <= b.pos THEN b.buf[i] ELSE 0],
     pos |-> 0]

RoundTrip_Write ==
    /\ cres.op = "none"
    /\ \E w \in {DNSPacket_write(cin.m, buffer)} :
          /\ buffer' = w.b
          /\ cres' = [op |-> "DNSPacket::write", ok |-> w.ok,
                      panic |-> w.panic, val |-> w.val]
    /\ nops' = nops + 1
    /\ UNCHANGED <<qn, cin>>
    /\ UNCHANGED rvars

RoundTrip_FromBuffer ==
    /\ cres.op = "DNSPacket::write"
    /\ cres.ok
    /\ \E overflow_checks \in BOOLEAN :
          \E r \in {from_buffer(Receive(buffer), overflow_checks)} :
              /\ buffer' = r.b
              /\ cres' = [op |-> "DNSPacket::from_buffer", ok |-> r.ok,
                          panic |-> r.panic, val |-> r.val]
    /\ nops' = nops + 1
    /\ UNCHANGED <<qn, cin>>
    /\ UNCHANGED rvars

NextRoundTrip ==
    \/ RoundTrip_Write
    \/ RoundTrip_FromBuffer

SpecRoundTrip == InitRoundTrip /\ [][NextRoundTrip]_vars

(* owner, type, class, TTL and rdata fields: the record without its        *)
(* rdlength                                                                *)
RecordStructure(r) == [r EXCEPT !.preamble.rdlength = 0]
SectionStructure(recs) == [i \in 1..Len(recs) |-> RecordStructure(recs[i])]

SameStructure(p, m) ==
    /\ p.header = m.header
    /\ p.questions = m.questions
    /\ SectionStructure(p.answers) = SectionStructure(m.answers)
    /\ SectionStructure(p.authority) = SectionStructure(m.authority)
    /\ SectionStructure(p.additional) = SectionStructure(m.additional)

(* C5: from_buffer applied to the octets DNSPacket::write produced for a   *)
(* message of supported record variants returns a message with the same    *)
(* header fields, the same questions and, section by section and in order, *)
(* records with the same owner, type, class, TTL and rdata fields.         *)
C5_MessageRoundTrip ==
    cres.op = "DNSPacket::from_buffer"
        => (cres.ok /\ SameStructure(cres.val, SyncCounts(cin.m)))

----------------------------------------------------------------------------
(* SpecGetNs: DNSPacket::get_ns applied to a packet and a qname            *)

Name_B == <<66>>
Name_AB == <<65, Dot, 66>>
Name_m == <<109>>

(* what may stand in an authority section: NS records with owners that are *)
(* the root, the qname, a parent, a parent in another case, a character    *)
(* suffix that is no parent, and a record that is not an NS record         *)
AuthorityRecords ==
    {DNSNSRecord_new(o, "IN", Ttl3600, Name_n) :
        o \in {Root, Name_b, Name_B, Name_xb, Name_ab}}
    \cup {DNSNSRecord_new(Name_b, "IN", Ttl3600, Name_m), Glue_n}

AuthoritySections ==
    {<<>>}
    \cup {<<r>> : r \in AuthorityRecords}
    \cup {<<r1, r2>> : r1 \in AuthorityRecords, r2 \in AuthorityRecords}

GetNsQnames == {Name_ab, Name_AB, Name_xb, Name_b, Name_n}

InitGetNs ==
    /\ ResolverIdle
    /\ buffer = BytePacketBuffer_new
    /\ qn = QnameIdle
    /\ nops = 0
    /\ cres = NoResult
    /\ \E ns \in AuthoritySections, qname \in GetNsQnames :
          cin = [kind |-> "get_ns",
                 p |-> Reply("NoError", <<>>, ns, <<>>),
                 qname |-> qname]

(* the iterator get_ns returns, collected *)
GetNs_Call ==
    /\ cres.op = "none"
    /\ cres' = [op |-> "get_ns", ok |-> TRUE, panic |-> FALSE,
                val |-> get_ns(cin.p, cin.qname)]
    /\ nops' = nops + 1
    /\ UNCHANGED <<buffer, qn, cin>>
    /\ UNCHANGED rvars

NextGetNs == GetNs_Call

SpecGetNs == InitGetNs /\ [][NextGetNs]_vars

(* owner equals qname or is a parent domain of it, label by label, letters *)
(* compared without regard to case                                         *)
LabelSuffixAnyCase(owner, qname) ==
    LabelSuffix(Lowercase(owner), Lowercase(qname))

(* the (owner, target) pairs of the authority NS records whose owner is    *)
(* qname or a parent of it, in section order                               *)
NsOfParents(p, qname) ==
    LET ns == SelectSeq(p.authority, IsNS)
        hit(r) == LabelSuffixAnyCase(r.preamble.name, qname)
        hits == SelectSeq(ns, hit)
    IN  [i \in 1..Len(hits) |-> <<hits[i].preamble.name, hits[i].rdata>>]

(* C14: get_ns(qname) yields exactly the (owner, target) pairs of the       *)
(* authority NS records whose owner equals qname or is a parent domain of   *)
(* qname by label-wise suffix, compared case-insensitively; an owner that   *)
(* is only a character suffix of qname is not yielded.                      *)
C14_LabelSuffixMatch ==
    cres.op = "get_ns" => cres.val = NsOfParents(cin.p, cin.qname)

----------------------------------------------------------------------------
(* SpecName: write_qname at a position of a used buffer, then read_qname   *)
(* from the same position                                                   *)

(* "WWW.Ex-1.COM" *)
Name_mixed == <<87, 87, 87, Dot, 69, 120, 45, 49, Dot, 67, 79, 77>>

(* a label of n octets, all c *)
LabelOf(n, c) == [i \in 1..n |-> c]

(* one label of 63 octets; and 63 + 63 + 63 + 61 octets in four labels,    *)
(* 255 octets on the wire                                                   *)
Name_label63 == LabelOf(63, 90)
Name_wire255 ==
    LabelOf(63, 97) \o <<Dot>> \o LabelOf(63, 66) \o <<Dot>>
        \o LabelOf(63, 45) \o <<Dot>> \o LabelOf(61, 57)

RoundTripNames ==
    {Name_n, Name_ab, Name_AB, Name_example_com, Name_mixed, Name_label63,
     Name_wire255}

(* the octets of a name of non-empty labels on the wire: one length octet  *)
(* per label and the terminator                                             *)
WireLen(name) == Len(name) + 2

(* where the name starts: the start of the buffer, behind a header, in the *)
(* middle, so that its terminator is the last octet of the buffer, and     *)
(* where there is no room for it                                            *)
NameStarts(name) == {0, 12, 200, BufSize - WireLen(name), BufSize - 2}

(* what the buffer held before: every octet zero, a pointer octet, or 255  *)
FillOctets == {0, 192, 255}

InitName ==
    /\ ResolverIdle
    /\ qn = QnameIdle
    /\ nops = 0
    /\ cres = NoResult
    /\ \E name \in RoundTripNames, fill \in FillOctets :
       \E at \in NameStarts(name) :
          /\ cin = [kind |-> "name", name |-> name, at |-> at, fill |-> fill]
          /\ buffer = [buf |-> [i \in 1..BufSize |-> fill], pos |-> at]

Name_Write ==
    /\ cres.op = "none"
    /\ \E w \in {write_qname(buffer, cin.name)} :
          /\ buffer' = w.b
          /\ cres' = [op |-> "write_qname", ok |-> w.ok, panic |-> w.panic,
                      val |-> w.val]
    /\ nops' = nops + 1
    /\ UNCHANGED <<qn, cin>>
    /\ UNCHANGED rvars

(* seek back to the start and read; val keeps the name read and the cursor *)
(* write_qname had left                                                     *)
Name_Read ==
    /\ cres.op = "write_qname"
    /\ cres.ok
    /\ \E r \in {read_qname(seek(buffer, cin.at).b, <<>>)} :
          /\ buffer' = r.b
          /\ cres' = [op |-> "read_qname", ok |-> r.ok, panic |-> r.panic,
                      val |-> <<r.val, buffer.pos>>]
    /\ nops' = nops + 1
    /\ UNCHANGED <<qn, cin>>
    /\ UNCHANGED rvars

NextName ==
    \/ Name_Write
    \/ Name_Read

SpecName == InitName /\ [][NextName]_vars

(* the name with each of the letters A..Z replaced by its small letter *)
LowercaseForm(name) ==
    [i \in 1..Len(name) |->
        IF name[i] \in 65..90 THEN name[i] + 32 ELSE name[i]]

(* C15: write_qname of a name of 1 to 63 octet labels of letters, digits   *)
(* and hyphen, at most 255 octets on the wire, succeeds where there is     *)
(* room for it; read_qname from the same start then returns the lowercase  *)
(* form of the name and leaves the cursor where write_qname left it.       *)
C15_NameRoundTrip ==
    /\ (cres.op = "write_qname" /\ cin.at + WireLen(cin.name) <= BufSize)
          => (cres.ok /\ buffer.pos = cin.at + WireLen(cin.name))
    /\ cres.op = "read_qname"
          => /\ cres.ok
             /\ cres.val[1] = LowercaseForm(cin.name)
             /\ buffer.pos = cres.val[2]
             /\ buffer.pos = cin.at + WireLen(cin.name)

C15_Witness ==
    /\ cres.op = "read_qname"
    /\ cin.name = Name_wire255
    /\ cin.fill = 192
    /\ cres.val[1] # cin.name
    /\ buffer.pos = BufSize

----------------------------------------------------------------------------
(* SpecRecordWrite: DNSRecord::write at a position of a used buffer        *)

WrittenRecords ==
    SampleRecords
    \cup {DNSARecord_new(Name_example_com, "CH", TtlZero, Ip2),
          DNSNSRecord_new(Root, "IN", Ttl3600, Name_example_com),
          DNSTXTRecord_new(Name_b, "IN", Ttl3600, <<>>),
          DNSCNAMERecord_new(Name_n, "IN", Ttl3600, Name_label63)}

(* where the record starts: the start of the buffer, behind a header and a *)
(* question, in the middle, and where there is no room for all of it       *)
RecordStarts == {0, AnswerAt, 300, BufSize - 20}

InitRecordWrite ==
    /\ ResolverIdle
    /\ qn = QnameIdle
    /\ nops = 0
    /\ cres = NoResult
    /\ \E r \in WrittenRecords, at \in RecordStarts, fill \in FillOctets :
          /\ cin = [kind |-> "record", r |-> r, at |-> at, fill |-> fill]
          /\ buffer = [buf |-> [i \in 1..BufSize |-> fill], pos |-> at]

Record_Write ==
    /\ cres.op = "none"
    /\ \E w \in {DNSRecord_write(cin.r, buffer)} :
          /\ buffer' = w.b
          /\ cres' = [op |-> "DNSRecord::write", ok |-> w.ok,
                      panic |-> w.panic, val |-> w.val]
    /\ nops' = nops + 1
    /\ UNCHANGED <<qn, cin>>
    /\ UNCHANGED rvars

NextRecordWrite == Record_Write

SpecRecordWrite == InitRecordWrite /\ [][NextRecordWrite]_vars

(* a name on the wire: each label behind its length octet, then 0 *)
RECURSIVE WireLabels(_)
WireLabels(labels) ==
    IF labels = <<>> THEN <<0>>
    ELSE <<Len(Head(labels))>> \o Head(labels) \o WireLabels(Tail(labels))

WireName(name) == WireLabels(SplitLabels(name))

U16(n) == <<n \div 256, n % 256>>

(* the octets each variant's write puts behind the rdlength field *)
WireRdata(r) ==
    CASE r.variant = "A" -> r.rdata
      [] r.variant = "AAAA" -> r.address
      [] r.variant \in {"NS", "CNAME"} -> WireName(r.rdata)
      [] r.variant = "PTR" -> WireName(r.ptrdname)
      [] r.variant = "MX" -> U16(r.preference) \o WireName(r.exchange)
      [] r.variant = "SOA" ->
            WireName(r.mname) \o WireName(r.rname) \o r.serial \o r.refresh
                \o r.retry \o r.expire \o r.minimum
      [] r.variant = "SRV" ->
            U16(r.priority) \o U16(r.weight) \o U16(r.port)
                \o WireName(r.target)
      [] r.variant = "TXT" -> r.text
      [] r.variant = "CAA" -> <<r.flags, Len(r.tag)>> \o r.tag \o r.value

(* the record on the wire, its rdlength the length of its rdata *)
WireOf(r) ==
    WireRecord(WireName(r.preamble.name), QRType_to_u16(r.preamble.rtype),
               QRClass_to_u16(r.preamble.class), r.preamble.ttl, WireRdata(r))

(* offset of the rdlength field of a record written at offset at *)
LenPos(r, at) == at + Len(WireName(r.preamble.name)) + 8

(* C16: after a successful DNSRecord::write the rdlength field holds the   *)
(* number of octets written behind it, the cursor is at the end of the     *)
(* body, and the buffer differs from what it held before only in the       *)
(* octets of the record: the length written last, for the variants that    *)
(* patch it, has changed the two rdlength octets and nothing else.         *)
C16_RdlengthMatchesBody ==
    (cres.op = "DNSRecord::write" /\ cres.ok)
        => LET len_pos == LenPos(cin.r, cin.at)
               wire == WireOf(cin.r)
           IN  /\ buffer.buf[len_pos + 1] * 256 + buffer.buf[len_pos + 2]
                     = buffer.pos - (len_pos + 2)
               /\ buffer.pos = cin.at + Len(wire)
               /\ \A i \in 1..BufSize :
                     buffer.buf[i] =
                        IF i > cin.at /\ i <= cin.at + Len(wire)
                        THEN wire[i - cin.at] ELSE cin.fill

C16_Witness ==
    /\ cres.op = "DNSRecord::write"
    /\ cres.ok
    /\ cin.r.variant = "SOA"
    /\ cin.fill = 255
    /\ cin.at = AnswerAt
    /\ buffer.buf[LenPos(cin.r, cin.at) + 2] = 27

----------------------------------------------------------------------------
(* SpecHeader: DNSHeaderSection::write into a new buffer, then             *)
(* DNSHeaderSection::read of the octets written                            *)

(* id and the four counts *)
HeaderNumbers ==
    {<<0, 0, 0, 0, 0>>, <<48879, 1, 2, 3, 4>>, <<65535, 65535, 256, 255, 1>>}

(* every combination of the flag, opcode and rcode variants, with one set  *)
(* of numbers; and the other numbers with the flags of a new header        *)
HeaderValues ==
    {[id |-> 48879, qr |-> qr, opcode |-> opcode, aa |-> aa, tc |-> tc,
      rd |-> rd, ra |-> ra, z |-> "Unused", ad |-> ad, cd |-> cd,
      rcode |-> RCodes[rc], qdcount |-> 1, ancount |-> 2, nscount |-> 3,
      arcount |-> 4] :
        qr \in {"Query", "Response"},
        opcode \in {"Query", "IQuery", "Status", "Notify", "Update"},
        aa \in {"NonAuthoritative", "Authoritative"},
        tc \in {"NonTruncated", "Truncated"},
        rd \in {"NonDesired", "Desired"},
        ra \in {"NonAvailable", "Available"},
        ad \in {"NonAuthenticated", "Authenticated"},
        cd \in {"Enabled", "Disabled"},
        rc \in 1..Len(RCodes)}
    \cup {[DNSHeaderSection_new EXCEPT !.id = n[1], !.qdcount = n[2],
                                       !.ancount = n[3], !.nscount = n[4],
                                       !.arcount = n[5]] :
            n \in HeaderNumbers}

InitHeader ==
    /\ ResolverIdle
    /\ qn = QnameIdle
    /\ nops = 0
    /\ cres = NoResult
    /\ buffer = BytePacketBuffer_new
    /\ \E h \in HeaderValues : cin = [kind |-> "header", h |-> h]

Header_Write ==
    /\ cres.op = "none"
    /\ \E w \in {DNSHeaderSection_write(cin.h, buffer)} :
          /\ buffer' = w.b
          /\ cres' = [op |-> "DNSHeaderSection::write", ok |-> w.ok,
                      panic |-> w.panic, val |-> w.val]
    /\ nops' = nops + 1
    /\ UNCHANGED <<qn, cin>>
    /\ UNCHANGED rvars

(* read, from the start of the buffer, into a new header *)
Header_Read ==
    /\ cres.op = "DNSHeaderSection::write"
    /\ cres.ok
    /\ \E r \in {DNSHeaderSection_read(seek(buffer, 0).b)} :
          /\ buffer' = r.b
          /\ cres' = [op |-> "DNSHeaderSection::read", ok |-> r.ok,
                      panic |-> r.panic, val |-> r.val]
    /\ nops' = nops + 1
    /\ UNCHANGED <<qn, cin>>
    /\ UNCHANGED rvars

NextHeader ==
    \/ Header_Write
    \/ Header_Read

SpecHeader == InitHeader /\ [][NextHeader]_vars

Bit(set) == IF set THEN 1 ELSE 0

(* the twelve octets of a header *)
HeaderOctets(h) ==
    U16(h.id)
    \o <<Bit(h.qr = "Response") * 128 + OpCode_to_u8(h.opcode) * 8
            + Bit(h.aa = "Authoritative") * 4 + Bit(h.tc = "Truncated") * 2
            + Bit(h.rd = "Desired"),
         Bit(h.ra = "Available") * 128 + Bit(h.z # "Unused") * 64
            + Bit(h.ad = "Authenticated") * 32 + Bit(h.cd = "Disabled") * 16
            + RCode_as_u8(h.rcode)>>
    \o U16(h.qdcount) \o U16(h.ancount) \o U16(h.nscount) \o U16(h.arcount)

(* C20: DNSHeaderSection::write emits exactly 12 octets: the id, flag      *)
(* octet 0 = QR<<7 | opcode<<3 | AA<<2 | TC<<1 | RD, flag octet 1 =        *)
(* RA<<7 | Z<<6 | AD<<5 | CD<<4 | RCODE, then the four counts, all         *)
(* big-endian; DNSHeaderSection::read of those octets yields the header    *)
(* that was written, field for field.                                       *)
C20_HeaderRoundTrip ==
    /\ cres.op = "DNSHeaderSection::write"
          => /\ cres.ok
             /\ buffer.pos = 12
             /\ SubSeq(buffer.buf, 1, 12) = HeaderOctets(cin.h)
             /\ \A i \in 13..BufSize : buffer.buf[i] = 0
    /\ cres.op = "DNSHeaderSection::read"
          => /\ cres.ok
             /\ cres.val = cin.h
             /\ buffer.pos = 12

C20_Witness ==
    /\ cres.op = "DNSHeaderSection::read"
    /\ cres.ok
    /\ cin.h.qr = "Response"
    /\ cin.h.opcode = "Update"
    /\ cin.h.cd = "Disabled"
    /\ cin.h.rcode = "NotZone"
    /\ buffer.buf[3] = 168
    /\ buffer.buf[4] = 26

----------------------------------------------------------------------------
(* SpecParse: get_byte_range and the TXT, CAA, record, question and        *)
(* datagram parses, each applied once to a prepared buffer.                *)

(* a case: the octets in the buffer, the position at the parse starts at,  *)
(* a number n the parse is given or is judged by (an rdlength, the         *)
(* position of a field), and the octets wire placed at that position       *)
ParseCase(kind, dg, at, n, wire) ==
    [kind |-> kind, dg |-> dg, at |-> at, n |-> n, wire |-> wire]

(* a label of three octets whose last octet is the last of the buffer *)
LabelAtEnd == Datagram({Seg(BufSize - 4, <<3, 97, 98, 99>>)})

RangeCases ==
    {ParseCase("range", ReplyDatagram(WireA(<<192, 12>>, Ttl3600, Ip1)),
               0, 0, <<>>),
     ParseCase("range", LabelAtEnd, BufSize - 4, 0, <<>>),
     ParseCase("range", [i \in 1..BufSize |-> i % 256], BufSize, 0, <<>>)}

(* TXT rdata of n octets, followed by an octet that is not part of it *)
TxtCases ==
    {ParseCase("txt", Datagram({Seg(at, text \o <<33>>)}), at, Len(text),
               text) :
        text \in {<<>>, Text_hi, Text_issue}, at \in {40, 100, 300}}

(* CAA rdata: flags, the tag length, the tag, the value *)
CaaRdata(flags, tag, value) == <<flags, Len(tag)>> \o tag \o value

Text_ca_b == <<99, 97, 46, 98>>

CaaCases ==
    {ParseCase("caa", Datagram({Seg(at, rd \o <<33, 33, 33, 33, 33>>)}), at,
               Len(rd), rd) :
        rd \in {CaaRdata(0, Text_issue, Text_ca_b),
                CaaRdata(128, Text_issue, <<>>),
                CaaRdata(0, Text_hi, Text_issue)},
        at \in {40, 100, 300}}

(* a pointer to its own position, where a name is expected *)
FieldAt == AnswerAt + 10
SelfPointer == <<192, FieldAt>>

(* an answer as the parse takes it: owner, type, the six octets read as    *)
(* TTL and length, then the body starting at FieldAt                       *)
RawRecord(typenum, body) ==
    <<192, 12>> \o U16(typenum) \o <<0, 0, 0, 0, 0, 22>> \o body

SoaTail == <<1, 98, 0>> \o U32(1) \o U32(2) \o U32(3) \o U32(4) \o U32(5)

RecordCases ==
    {ParseCase("record", ReplyDatagram(RawRecord(t[1], t[2])), AnswerAt,
               FieldAt, RawRecord(t[1], t[2])) :
        t \in {<<6, SelfPointer \o SoaTail>>,
               <<6, <<1, 97, 0>> \o SoaTail>>,
               <<5, SelfPointer>>,
               <<2, SelfPointer>>,
               <<5, <<1, 97, 0>> >>}}

(* whole datagrams: replies carrying a well-formed A, TXT or CAA answer,   *)
(* the empty datagram and one of all ones                                  *)
DatagramCases ==
    {ParseCase("datagram", ReplyDatagram(w), 0, Len(w), w) :
        w \in {WireA(<<192, 12>>, Ttl3600, Ip1),
               WireRecord(<<192, 12>>, 16, 1, Ttl3600, Text_hi),
               WireRecord(<<192, 12>>, 257, 1, Ttl3600,
                          CaaRdata(0, Text_issue, Text_ca_b)),
               WireRecord(<<192, 12>>, 257, 1, TtlZero,
                          CaaRdata(0, Text_issue, Text_ca_b))}}
    \cup {ParseCase("datagram", Zeros, 0, 0, <<>>),
          ParseCase("datagram", [i \in 1..BufSize |-> 255], 0, 0, <<>>)}

(* questions on the wire: an uncompressed lowercase name, a type, a class *)
QuestionNames == {Name_ab, Name_n, Name_example_com}
QuestionTypes == {1, 28, 257, 999, 65535}
QuestionClasses == {1, 3, 4, 255}

WireQuestion(name, typenum, classnum) ==
    WireName(name) \o U16(typenum) \o U16(classnum)

QuestionCases ==
    {ParseCase("question",
               Datagram({Seg(12, WireQuestion(nm, t, c))}), 12, 0,
               WireQuestion(nm, t, c)) :
        nm \in QuestionNames, t \in QuestionTypes, c \in QuestionClasses}

ParseCases ==
    RangeCases \cup TxtCases \cup CaaCases \cup RecordCases
        \cup DatagramCases \cup QuestionCases

InitParse ==
    /\ ResolverIdle
    /\ qn = QnameIdle
    /\ nops = 0
    /\ cres = NoResult
    /\ \E c \in ParseCases :
          /\ cin = [c EXCEPT !.dg = <<>>]
          /\ buffer = [buf |-> c.dg, pos |-> c.at]

(* start and len of the calls: inside the buffer, ending on its last       *)
(* octet, and reaching past it                                             *)
RangeArgs ==
    {<<0, 0>>, <<0, 12>>, <<12, 17>>, <<0, BufSize - 1>>, <<0, BufSize>>,
     <<BufSize - 3, 3>>, <<BufSize - 1, 1>>, <<BufSize, 0>>,
     <<BufSize - 12, 12>>, <<BufSize - 12, 13>>, <<0, BufSize + 1>>}

(* one parse applied to the buffer: r is what it returned, arg what it was *)
(* called with                                                             *)
Parsed(op, r, arg) ==
    /\ nops' = nops + 1
    /\ buffer' = r.b
    /\ cres' = [op |-> op, ok |-> r.ok, panic |-> r.panic, val |-> r.val,
                arg |-> arg]
    /\ UNCHANGED <<qn, cin>>
    /\ UNCHANGED rvars

GetByteRange_Call ==
    /\ cres.op = "none"
    /\ cin.kind = "range"
    /\ \E a \in RangeArgs :
          Parsed("get_byte_range", get_byte_range(buffer, a[1], a[2]), a)

(* the preamble a record's read is handed: the rdlength is the case's n *)
PreambleOf(rtype) ==
    DNSRecordPreamble_new(Name_ab, rtype, "IN", Ttl3600, cin.n)

Txt_Read ==
    /\ cres.op = "none"
    /\ cin.kind = "txt"
    /\ Parsed("DNSTXTRecord::read",
              DNSTXTRecord_read(buffer, PreambleOf(QRType_TXT)), <<cin.n>>)

Caa_Read ==
    /\ cres.op = "none"
    /\ cin.kind = "caa"
    /\ \E overflow_checks \in BOOLEAN :
          Parsed("DNSCAARecord::read",
                 DNSCAARecord_read(buffer, PreambleOf(QRType_CAA),
                                   overflow_checks),
                 <<cin.n>>)

Record_Read ==
    /\ cres.op = "none"
    /\ cin.kind = "record"
    /\ \E overflow_checks \in BOOLEAN :
          Parsed("DNSRecord::read", DNSRecord_read(buffer, overflow_checks),
                 <<cin.n>>)

FromBuffer_Call ==
    /\ cres.op = "none"
    /\ cin.kind = "datagram"
    /\ \E overflow_checks \in BOOLEAN :
          Parsed("DNSPacket::from_buffer",
                 from_buffer(buffer, overflow_checks), <<cin.n>>)

Question_Read ==
    /\ cres.op = "none"
    /\ cin.kind = "question"
    /\ Parsed("DNSQuestion::read", DNSQuestion_read(buffer), <<cin.n>>)

(* the question read is written at the start of a new buffer *)
Question_Write ==
    /\ cres.op = "DNSQuestion::read"
    /\ cres.ok
    /\ Parsed("DNSQuestion::write",
              DNSQuestion_write(cres.val, BytePacketBuffer_new), <<cin.n>>)

NextParse ==
    \/ GetByteRange_Call
    \/ Txt_Read
    \/ Caa_Read
    \/ Record_Read
    \/ FromBuffer_Call
    \/ Question_Read
    \/ Question_Write

SpecParse == InitParse /\ [][NextParse]_vars

(* C21: get_byte_range(start, len) returns the len octets from start for   *)
(* every start + len <= 512 and fails only when start + len > 512.         *)
C21_ByteRangeUpToEnd ==
    cres.op = "get_byte_range"
        => LET start == cres.arg[1]
               len == cres.arg[2]
           IN  /\ cres.ok <=> start + len <= BufSize
               /\ cres.ok
                    => cres.val = [i \in 1..len |-> buffer.buf[start + i]]

(* C22: from_buffer returns a packet or an error for every datagram; it    *)
(* never aborts the process.                                               *)
C22_FromBufferNeverAborts ==
    cres.op = "DNSPacket::from_buffer" => ~cres.panic

(* C23: when the read of a name inside a record fails, DNSRecord::read     *)
(* returns an error and no record.                                         *)
C23_FailedFieldIsError ==
    (/\ cres.op = "DNSRecord::read"
     /\ ~read_qname([buf |-> buffer.buf, pos |-> cin.n], <<>>).ok)
        => ~cres.ok

(* C24: the TXT read with rdlength n consumes exactly n octets and yields  *)
(* those n octets as the text; with n = 0 it consumes nothing.             *)
C24_TxtReadsRdlength ==
    cres.op = "DNSTXTRecord::read"
        => /\ cres.ok
           /\ buffer.pos = cin.at + cin.n
           /\ cres.val.text = cin.wire

(* C25: the CAA read with rdlength n takes the flags octet, the tag length *)
(* octet, tag_len octets into tag and n - 2 - tag_len octets into value,   *)
(* n octets in all.                                                        *)
C25_CaaReadsRdlength ==
    cres.op = "DNSCAARecord::read"
        => LET tag_len == cin.wire[2] IN
           /\ cres.ok
           /\ buffer.pos = cin.at + cin.n
           /\ cres.val.flags = cin.wire[1]
           /\ cres.val.tag = SubSeq(cin.wire, 3, 2 + tag_len)
           /\ cres.val.value = SubSeq(cin.wire, 3 + tag_len, cin.n)

(* C27: DNSQuestion::read returns the name, the type and the class that    *)
(* are on the wire, and DNSQuestion::write of what was read emits the      *)
(* same octets.                                                            *)
C27_QuestionRoundTrip ==
    LET w == cin.wire
        typenum == w[Len(w) - 3] * 256 + w[Len(w) - 2]
        classnum == w[Len(w) - 1] * 256 + w[Len(w)]
    IN  /\ cres.op = "DNSQuestion::read"
            => /\ cres.ok
               /\ WireName(cres.val.qname) = SubSeq(w, 1, Len(w) - 4)
               /\ cres.val.qtype = QRType_from_u16(typenum)
               /\ Some(cres.val.qclass) = QRClass_from_u16(classnum)
               /\ buffer.pos = cin.at + Len(w)
        /\ cres.op = "DNSQuestion::write"
            => /\ cres.ok
               /\ buffer.pos = Len(w)
               /\ SubSeq(buffer.buf, 1, Len(w)) = w

============================================================================
